---- MODULE Spec2Model ----
(***************************************************************************)
(* Export pipeline of write-book-template and its Markdown path-rewriting  *)
(* subsystem: scripts/convert_to_absolute.py, scripts/convert_to_relative  *)
(* .py, scripts/convert_img_tags.py, scripts/normalize_toc_links.py and    *)
(* the exporter package.                                                   *)
(*                                                                         *)
(* A text is a sequence of one-character strings.  The placeholder tokens  *)
(* "{{FENCE_n}}" / "{{INLINE_n}}" of convert_to_absolute are kept as       *)
(* single elements of such a sequence.  A filesystem path is a sequence of *)
(* components, each component a sequence of characters.                    *)
(***************************************************************************)
EXTENDS Integers, Sequences, FiniteSets, TLC

VARIABLES
    file,      \* content of the Markdown file manuscript/chapters/f.md
    orig,      \* its content before any rewrite ran
    hist,      \* the rewrite calls made so far, with what each returned
    toc,       \* content of the TOC file handed to normalize_toc_links.py
    tocOrig,   \* its content before the normalizer ran
    tocRuns,   \* the contents the normalizer has left behind, in order
    pc,        \* build_all: the step the orchestrator is about to execute
    tree,      \* build_all: manuscript file name -> content
    tree0,     \* build_all: the manuscript as it was when build_all started
    opts,      \* build_all: the caller's arguments
    calls,     \* build_all: external steps executed so far, in order
    outcome,   \* build_all: "running", "returned" or "raised"
    env        \* build_all: the metadata file in use, the temporary file, the language

vars == <<file, orig, hist, toc, tocOrig, tocRuns, pc, tree, tree0, opts, calls, outcome, env>>

(***************************************************************************)
(* Strings                                                                 *)
(***************************************************************************)

\* str.startswith / str.endswith
StartsWith(s, p) == Len(s) >= Len(p) /\ SubSeq(s, 1, Len(p)) = p
EndsWith(s, p) == Len(s) >= Len(p) /\ SubSeq(s, Len(s) - Len(p) + 1, Len(s)) = p

\* str.find(pat, from): the least index >= from where pat occurs, 0 when none
RECURSIVE Find(_, _, _)
Find(s, pat, from) ==
    IF from < 1 \/ from + Len(pat) - 1 > Len(s) THEN 0
    ELSE IF SubSeq(s, from, from + Len(pat) - 1) = pat THEN from
    ELSE Find(s, pat, from + 1)

\* the least index >= from whose character lies in the set cs, 0 when none
RECURSIVE FindAny(_, _, _)
FindAny(s, cs, from) ==
    IF from < 1 \/ from > Len(s) THEN 0
    ELSE IF s[from] \in cs THEN from
    ELSE FindAny(s, cs, from + 1)

\* number of (possibly overlapping) occurrences of pat in s
RECURSIVE Occurrences(_, _, _)
Occurrences(s, pat, from) ==
    LET i == Find(s, pat, from)
    IN  IF i = 0 THEN 0 ELSE 1 + Occurrences(s, pat, i + 1)

Contains(s, pat) == Find(s, pat, 1) # 0

\* str.isspace for one character
IsSpace(ch) == ch \in {" ", "\n", "\t"}

RECURSIVE LStrip(_)
LStrip(s) == IF s # <<>> /\ IsSpace(s[1]) THEN LStrip(Tail(s)) ELSE s

RECURSIVE RStrip(_)
RStrip(s) == IF s # <<>> /\ IsSpace(s[Len(s)]) THEN RStrip(SubSeq(s, 1, Len(s) - 1)) ELSE s

Strip(s) == RStrip(LStrip(s))

\* number of leading whitespace characters of s from index from on
RECURSIVE SpaceRun(_, _)
SpaceRun(s, from) ==
    IF from <= Len(s) /\ IsSpace(s[from]) THEN 1 + SpaceRun(s, from + 1) ELSE 0

\* "".join(parts)
RECURSIVE Flatten(_)
Flatten(parts) == IF parts = <<>> THEN <<>> ELSE Head(parts) \o Flatten(Tail(parts))

\* str.replace(token, original) for a token that is one element of the text
RECURSIVE ReplaceToken(_, _, _)
ReplaceToken(s, token, original) ==
    IF s = <<>> THEN <<>>
    ELSE (IF Head(s) = token THEN original ELSE <<Head(s)>>)
         \o ReplaceToken(Tail(s), token, original)

Letters == {"a", "b", "c", "d", "e", "f", "g", "h", "i", "j", "k", "l", "m", "n", "o",
            "p", "q", "r", "s", "t", "u", "v", "w", "x", "y", "z"}
Digits == {"0", "1", "2", "3", "4", "5", "6", "7", "8", "9"}
\* \w of the re module
WordChars == Letters \cup Digits \cup {"_"}

(***************************************************************************)
(* Filesystem paths                                                        *)
(***************************************************************************)

\* str.split("/")
RECURSIVE SplitSlash(_)
SplitSlash(s) ==
    LET i == Find(s, <<"/">>, 1)
    IN  IF i = 0 THEN <<s>>
        ELSE <<SubSeq(s, 1, i - 1)>> \o SplitSlash(SubSeq(s, i + 1, Len(s)))

\* os.path.realpath without symlinks: drop "" and ".", let ".." pop, from base
RECURSIVE Normalize(_, _)
Normalize(base, comps) ==
    IF comps = <<>> THEN base
    ELSE LET c == Head(comps)
         IN  IF c = <<>> \/ c = <<".">> THEN Normalize(base, Tail(comps))
             ELSE IF c = <<".", ".">>
                  THEN Normalize(IF base = <<>> THEN <<>> ELSE SubSeq(base, 1, Len(base) - 1),
                                 Tail(comps))
                  ELSE Normalize(Append(base, c), Tail(comps))

\* (dir / target).resolve(): an absolute target replaces dir
Resolve(dir, target) ==
    IF StartsWith(target, <<"/">>) THEN Normalize(<<>>, SplitSlash(target))
    ELSE Normalize(dir, SplitSlash(target))

\* "/".join(components)
RECURSIVE JoinSlash(_)
JoinSlash(comps) ==
    IF comps = <<>> THEN <<>>
    ELSE IF Len(comps) = 1 THEN Head(comps)
    ELSE Head(comps) \o <<"/">> \o JoinSlash(Tail(comps))

\* str(path) of an absolute path
PathStr(path) == <<"/">> \o JoinSlash(path)

\* the project: /p with assets /p/a and the Markdown file /p/m/c/f
PROJECT_ROOT == << <<"p">> >>
ASSETS_DIR == << <<"p">>, <<"a">> >>
MdDir == << <<"p">>, <<"m">>, <<"c">> >>

\* what exists on disk: the directories, an image under assets, an image
\* named "(k)" under assets, an image beside the Markdown file (outside
\* assets) and the Markdown file
Exists(path) ==
    path \in { <<>>, PROJECT_ROOT, ASSETS_DIR,
               << <<"p">>, <<"m">> >>, MdDir,
               << <<"p">>, <<"a">>, <<"i">> >>,
               << <<"p">>, <<"a">>, <<"(", "k", ")">> >>,
               << <<"p">>, <<"m">>, <<"c">>, <<"j">> >>,
               << <<"p">>, <<"m">>, <<"c">>, <<"f">> >> }

IsPrefix(p, q) == Len(p) <= Len(q) /\ SubSeq(q, 1, Len(p)) = p

\* length of the longest common prefix of two paths
RECURSIVE CommonLen(_, _)
CommonLen(p, q) ==
    IF p # <<>> /\ q # <<>> /\ Head(p) = Head(q) THEN 1 + CommonLen(Tail(p), Tail(q)) ELSE 0

\* os.path.relpath(path, start) as components
RelPath(path, start) ==
    LET n == CommonLen(path, start)
        ups == [k \in 1..(Len(start) - n) |-> <<".", ".">>]
        rest == SubSeq(path, n + 1, Len(path))
    IN  IF ups \o rest = <<>> THEN << <<".">> >> ELSE ups \o rest

(***************************************************************************)
(* scripts/convert_to_absolute.py                                          *)
(***************************************************************************)

\* the backtick character (a TLA+ string cannot hold it; "~" stands for it)
Tick == "~"
Fence3 == <<Tick, Tick, Tick>>

\* f"{{{{{prefix}_{idx}}}}}": the placeholder, one element of the text
Token(prefix, idx) == "{{" \o prefix \o "_" \o ToString(idx) \o "}}"

\* FENCE_RE.search(s, from): [s |-> first index, e |-> last index], s = 0 when
\* there is no match.  Three backticks, .*? with DOTALL, three backticks: an
\* opener and the nearest closer
\* that does not overlap it.
FenceSearch(s, from) ==
    LET i == Find(s, Fence3, from)
        j == IF i = 0 THEN 0 ELSE Find(s, Fence3, i + 3)
    IN  IF j = 0 THEN [s |-> 0, e |-> 0] ELSE [s |-> i, e |-> j + 2]

\* INLINE_CODE_RE finding nothing: inline code spans are not protected
InlineSearch_Unprotected(s, from) == [s |-> 0, e |-> 0]

\* INLINE_CODE_RE.search(s, from): a backtick and the next backtick
InlineSearch(s, from) ==
    LET i == Find(s, <<Tick>>, from)
        j == IF i = 0 THEN 0 ELSE Find(s, <<Tick>>, i + 1)
    IN  IF j = 0 THEN [s |-> 0, e |-> 0] ELSE [s |-> i, e |-> j]

PatternSearch(prefix, s, from) ==
    IF prefix = "FENCE" THEN FenceSearch(s, from) ELSE InlineSearch(s, from)

\* what protect returns for a match: the text before it, the token, and the
\* substitution of the rest
ProtectJoin(before, token, rest) ==
    [text |-> before \o <<token>> \o rest.text, idx |-> rest.idx, mapping |-> rest.mapping]

RECURSIVE Protect(_, _, _, _, _)

\* repl of protect for the match m (m.s = 0: no match is left)
ProtectMatch(prefix, s, from, idx, mapping, m) ==
    IF m.s = 0
    THEN [text |-> SubSeq(s, from, Len(s)), idx |-> idx, mapping |-> mapping]
    ELSE ProtectJoin(SubSeq(s, from, m.s - 1), Token(prefix, idx),
                     Protect(prefix, s, m.e + 1, idx + 1,
                             Append(mapping, <<Token(prefix, idx), SubSeq(s, m.s, m.e)>>)))

\* protect(pattern, prefix, s): pattern.sub(repl, s) from index from on, with
\* the shared counter idx and the mapping (token, original) in insertion order
Protect(prefix, s, from, idx, mapping) ==
    ProtectMatch(prefix, s, from, idx, mapping, PatternSearch(prefix, s, from))

\* tmp = protect(INLINE_CODE_RE, "INLINE", tmp); return tmp, mapping
ProtectInline(f) == Protect("INLINE", f.text, 1, f.idx, f.mapping)

\* _protect_segments(text): fences first, then inline code in what is left
ProtectSegments(text) == ProtectInline(Protect("FENCE", text, 1, 0, <<>>))

\* _restore_segments(text, mapping): one str.replace per entry, in dict order
RECURSIVE RestoreSegments(_, _)
RestoreSegments(text, mapping) ==
    IF mapping = <<>> THEN text
    ELSE RestoreSegments(ReplaceToken(text, Head(mapping)[1], Head(mapping)[2]), Tail(mapping))

\* URLISH_RE: ^(?:[a-zA-Z][a-zA-Z0-9+.\-]*:|//)
RECURSIVE SchemeAt(_, _)
SchemeAt(t, k) ==
    IF k > Len(t) THEN FALSE
    ELSE IF t[k] = ":" THEN TRUE
    ELSE IF t[k] \in Letters \cup Digits \cup {"+", ".", "-"} THEN SchemeAt(t, k + 1)
    ELSE FALSE

HasScheme(t) == t # <<>> /\ t[1] \in Letters /\ SchemeAt(t, 2)

IsUrlLike(t) == HasScheme(t) \/ StartsWith(t, <<"/", "/">>)

\* os.path.isabs
IsAbs(t) == StartsWith(t, <<"/">>)

\* a scan that ends the tag at the first ')'
ScanParens_FirstClose(text, k, depth, inAngle) == Find(text, <<")">>, k)

\* the scan inside (...) of _find_image_tag: index of the closing ')' of the
\* tag, 0 when the text ends first
RECURSIVE ScanParens(_, _, _, _)
ScanParens(text, k, depth, inAngle) ==
    IF k > Len(text) THEN 0
    ELSE LET ch == text[k]
         IN  IF ~inAngle /\ depth = 0 /\ ch = "<" THEN ScanParens(text, k + 1, depth, TRUE)
             ELSE IF inAngle THEN ScanParens(text, k + 1, depth, ch # ">")
             ELSE IF ch = "(" THEN ScanParens(text, k + 1, depth + 1, FALSE)
             ELSE IF ch = ")"
                  THEN (IF depth = 0 THEN k ELSE ScanParens(text, k + 1, depth - 1, FALSE))
             ELSE ScanParens(text, k + 1, depth, FALSE)

\* _find_image_tag(text, start): [found, s, e, alt, inside] with s..e the tag
RECURSIVE FindImageTag(_, _)
FindImageTag(text, pos) ==
    LET i == Find(text, <<"!", "[">>, pos)
        j == IF i = 0 THEN 0 ELSE Find(text, <<"]">>, i + 2)
        none == [found |-> FALSE, s |-> 0, e |-> 0, alt |-> <<>>, inside |-> <<>>]
    IN  IF i = 0 THEN none
        ELSE IF j = 0 THEN FindImageTag(text, i + 2)
        ELSE IF j + 1 > Len(text) \/ text[j + 1] # "(" THEN FindImageTag(text, i + 2)
        ELSE LET k == ScanParens(text, j + 2, 0, FALSE)
             IN  IF k = 0 THEN FindImageTag(text, i + 2)
                 ELSE [found |-> TRUE, s |-> i, e |-> k,
                       alt |-> SubSeq(text, i + 2, j - 1),
                       inside |-> SubSeq(text, j + 2, k - 1)]

Quotes == {"\"", "'"}

\* the group "rest" of the regex of _split_inside_parens matched against all
\* of r: \s+ and then "..." or '...' up to the end
IsQuotedRest(r) ==
    LET w == SpaceRun(r, 1)
        q == IF w + 1 <= Len(r) THEN r[w + 1] ELSE ""
    IN  /\ w >= 1
        /\ q \in Quotes
        /\ Len(r) >= w + 2
        /\ r[Len(r)] = q
        /\ Find(r, <<q>>, w + 2) = Len(r)

\* the bare branch of _split_inside_parens from index i on
RECURSIVE SplitBare(_, _, _, _)
SplitBare(s, i, depth, acc) ==
    IF i > Len(s) THEN [target |-> RStrip(acc), title |-> <<>>]
    ELSE LET ch == s[i]
         IN  IF ch = "(" THEN SplitBare(s, i + 1, depth + 1, Append(acc, ch))
             ELSE IF ch = ")"
                  THEN SplitBare(s, i + 1, IF depth = 0 THEN 0 ELSE depth - 1, Append(acc, ch))
             ELSE IF depth = 0 /\ IsSpace(ch)
                  THEN LET j == i + SpaceRun(s, i)
                       IN  IF j <= Len(s) /\ s[j] \in Quotes
                           THEN [target |-> RStrip(acc),
                                 title |-> <<" ">> \o SubSeq(s, j, Len(s))]
                           ELSE SplitBare(s, i + 1, depth, Append(acc, ch))
             ELSE SplitBare(s, i + 1, depth, Append(acc, ch))

\* _split_inside_parens(inside): [target, title]
SplitInsideParens(inside) ==
    LET s == Strip(inside)
        g == IF s # <<>> /\ s[1] = "<" THEN Find(s, <<">">>, 2) ELSE 0
        rest == SubSeq(s, g + 1, Len(s))
    IN  IF s = <<>> THEN [target |-> <<>>, title |-> <<>>]
        ELSE IF g >= 3 /\ (rest = <<>> \/ IsQuotedRest(rest))
             THEN [target |-> SubSeq(s, 1, g), title |-> rest]
        ELSE SplitBare(s, 1, 0, <<>>)

\* _strip_angle_brackets
StripAngleBrackets(s) ==
    IF StartsWith(s, <<"<">>) /\ EndsWith(s, <<">">>) THEN SubSeq(s, 2, Len(s) - 1) ELSE s

RECURSIVE ConvertTags(_, _)

\* the body of the loop of _convert_images_in_text for one tag: the tag is
\* rebuilt with the absolute path when its target is a relative path of an
\* existing file, and is copied otherwise
ConvertTag(before, whole, alt, sp, target, cand, rest) ==
    IF /\ sp.target # <<>>
       /\ ~IsUrlLike(target)
       /\ ~IsAbs(target)
       /\ Exists(cand)
    THEN [text |-> before \o <<"!", "[">> \o alt \o <<"]", "(">>
                   \o PathStr(cand) \o sp.title \o <<")">> \o rest.text,
          converted |-> rest.converted + 1]
    ELSE [text |-> before \o whole \o rest.text, converted |-> rest.converted]

ConvertTarget(before, whole, alt, sp, target, rest) ==
    ConvertTag(before, whole, alt, sp, target, Resolve(MdDir, target), rest)

ConvertSplit(before, whole, alt, sp, rest) ==
    ConvertTarget(before, whole, alt, sp, Strip(StripAngleBrackets(sp.target)), rest)

ConvertFound(protected, idx, tag) ==
    IF ~tag.found THEN [text |-> SubSeq(protected, idx, Len(protected)), converted |-> 0]
    ELSE ConvertSplit(SubSeq(protected, idx, tag.s - 1), SubSeq(protected, tag.s, tag.e),
                      tag.alt, SplitInsideParens(tag.inside), ConvertTags(protected, tag.e + 1))

\* the loop of _convert_images_in_text over the protected text from idx on:
\* [text, converted]
ConvertTags(protected, idx) == ConvertFound(protected, idx, FindImageTag(protected, idx))

\* return _restore_segments(result, mapping), converted
Restored(c, mapping) == [text |-> RestoreSegments(c.text, mapping), converted |-> c.converted]

ConvertProtected(p) == Restored(ConvertTags(p.text, 1), p.mapping)

\* _convert_images_in_text(md_text, md_file): [text, converted]
ConvertImagesInText(md_text) == ConvertProtected(ProtectSegments(md_text))

(***************************************************************************)
(* scripts/convert_to_relative.py                                          *)
(***************************************************************************)

\* _strip_angles: [s, had]
StripAngles(s) ==
    IF StartsWith(s, <<"<">>) /\ EndsWith(s, <<">">>)
    THEN [s |-> SubSeq(s, 2, Len(s) - 1), had |-> TRUE]
    ELSE [s |-> s, had |-> FALSE]

\* _is_absolute_path
IsAbsolutePath(p) == StartsWith(p, <<"/">>)

\* _is_url_or_anchor, SCHEME_RE being ^[a-zA-Z][a-zA-Z0-9+\-.]*:
IsUrlOrAnchor(t) == t = <<>> \/ StartsWith(t, <<"#">>) \/ HasScheme(t)

\* _inside_assets(Path(target)): relative_to succeeds on the resolved path
InsideAssets(target) == IsPrefix(ASSETS_DIR, Resolve(<<>>, target))

\* convert_target_to_relative(raw_target, file_dir)
ConvertTargetToRelative(raw_target) ==
    LET st == StripAngles(Strip(raw_target))
        rel == JoinSlash(RelPath(Resolve(<<>>, st.s), MdDir))
    IN  IF IsUrlOrAnchor(st.s) \/ ~IsAbsolutePath(st.s) THEN raw_target
        ELSE IF ~InsideAssets(st.s) THEN raw_target
        ELSE IF st.had THEN <<"<">> \o rel \o <<">">> ELSE rel

\* the group "title" of MD_LINK_RE matched against all of seg (which holds no
\* ')'): \s+ a quote, anything, a quote, \s*
IsTitleSeg(seg) ==
    LET w == SpaceRun(seg, 1)
        r == RStrip(seg)
    IN  /\ w >= 1
        /\ Len(r) >= w + 2
        /\ r[w + 1] \in Quotes
        /\ r[Len(r)] \in Quotes

\* the lazy branch [^)]+? of the target of MD_LINK_RE: the least index u > t0
\* such that text[u .. c-1] is a title, else c (no title); c is the first ')'
RECURSIVE LazyTargetEnd(_, _, _)
LazyTargetEnd(text, u, c) ==
    IF u >= c THEN c
    ELSE IF IsTitleSeg(SubSeq(text, u, c - 1)) THEN u
    ELSE LazyTargetEnd(text, u + 1, c)

NoMatch == [ok |-> FALSE, s |-> 0, e |-> 0, pre |-> <<>>, target |-> <<>>, title |-> <<>>]

\* what follows the prefix and w whitespace characters of MD_LINK_RE, the
\* target starting at t0: the branch <[^>]*> first, then the lazy branch
MdLinkTail(text, i, pre, t0) ==
    LET g == IF t0 <= Len(text) /\ text[t0] = "<" THEN Find(text, <<">">>, t0 + 1) ELSE 0
        gc == IF g = 0 THEN 0 ELSE Find(text, <<")">>, g + 1)
        angleTitle == g # 0 /\ gc > g + 1 /\ IsTitleSeg(SubSeq(text, g + 1, gc - 1))
        angleBare == g # 0 /\ gc = g + 1
        c == Find(text, <<")">>, t0)
        u == LazyTargetEnd(text, t0 + 1, c)
    IN  IF angleTitle \/ angleBare
        THEN [ok |-> TRUE, s |-> i, e |-> gc, pre |-> pre,
              target |-> SubSeq(text, t0, g), title |-> SubSeq(text, g + 1, gc - 1)]
        ELSE IF c > t0
        THEN [ok |-> TRUE, s |-> i, e |-> c, pre |-> pre,
              target |-> SubSeq(text, t0, u - 1), title |-> SubSeq(text, u, c - 1)]
        ELSE NoMatch

RECURSIVE MdLinkSpaces(_, _, _, _, _)

MdLinkBacktrack(text, i, pre, p0, w, m) ==
    IF m.ok \/ w = 0 THEN m ELSE MdLinkSpaces(text, i, pre, p0, w - 1)

\* \s* of MD_LINK_RE is greedy: try w whitespace characters, then fewer
MdLinkSpaces(text, i, pre, p0, w) ==
    MdLinkBacktrack(text, i, pre, p0, w, MdLinkTail(text, i, pre, p0 + w))

\* the prefix of MD_LINK_RE from index i, r being the index of the "]"
MdLinkPrefix(text, i, r) ==
    IF r = 0 \/ r + 1 > Len(text) \/ text[r + 1] # "(" THEN NoMatch
    ELSE MdLinkSpaces(text, i, SubSeq(text, i, r + 1), r + 2, SpaceRun(text, r + 2))

MdLinkBracket(text, i, b) ==
    MdLinkPrefix(text, i, IF b <= Len(text) /\ text[b] = "[" THEN Find(text, <<"]">>, b + 1) ELSE 0)

\* MD_LINK_RE.match(text, i)
MdLinkMatchAt(text, i) == MdLinkBracket(text, i, IF text[i] = "!" THEN i + 1 ELSE i)

RECURSIVE MdLinkSearch(_, _)

MdLinkFirst(text, i, m) == IF m.ok THEN m ELSE MdLinkSearch(text, i + 1)

MdLinkCandidate(text, i) ==
    IF i = 0 THEN NoMatch ELSE MdLinkFirst(text, i, MdLinkMatchAt(text, i))

\* MD_LINK_RE.search(text, from): the leftmost match
MdLinkSearch(text, from) == MdLinkCandidate(text, FindAny(text, {"!", "["}, from))

RECURSIVE MdLinkSub(_, _)

\* md_repl for the match m (none left when ~m.ok)
MdLinkReplace(text, from, m) ==
    IF ~m.ok THEN SubSeq(text, from, Len(text))
    ELSE SubSeq(text, from, m.s - 1) \o m.pre \o ConvertTargetToRelative(m.target)
         \o m.title \o <<")">> \o MdLinkSub(text, m.e + 1)

\* MD_LINK_RE.sub(md_repl, text) from index from on
MdLinkSub(text, from) == MdLinkReplace(text, from, MdLinkSearch(text, from))

RECURSIVE HtmlAttrAt(_, _, _, _, _)

\* the attribute written at index a: a quote q, [^"']+ up to the quote at e,
\* which has to be q
HtmlAttrQuoted(text, i, open, attr, a, q, e) ==
    IF /\ text[a - 1] \notin WordChars
       /\ e > a + Len(attr) + 1
       /\ text[e] = q
    THEN [ok |-> TRUE, s |-> i, e |-> e,
          pre |-> SubSeq(text, i, a + Len(attr) - 1),
          target |-> SubSeq(text, a + Len(attr) + 1, e - 1), title |-> <<q>>]
    ELSE HtmlAttrAt(text, i, open, attr, a + 1)

HtmlAttrQuote(text, i, open, attr, a, q) ==
    HtmlAttrQuoted(text, i, open, attr, a, q,
                   IF q \in Quotes THEN FindAny(text, Quotes, a + Len(attr) + 1) ELSE 0)

\* [^>]*? ends at index a, gt being the index of the first ">" from i on
HtmlAttrFound(text, i, open, attr, a, gt) ==
    IF a = 0 \/ (gt # 0 /\ gt < a) THEN NoMatch
    ELSE HtmlAttrQuote(text, i, open, attr, a,
                       IF a + Len(attr) <= Len(text) THEN text[a + Len(attr)] ELSE "")

\* (<tag\b[^>]*?\battr=)(["'])([^"']+)\2 tried at index i with the attribute
\* at index k or, lazily, later: k is at least i + Len(open) + 1
HtmlAttrAt(text, i, open, attr, k) ==
    HtmlAttrFound(text, i, open, attr, Find(text, attr, k), Find(text, <<">">>, i))

RECURSIVE HtmlAttrSearch(_, _, _, _)

HtmlAttrFirst(text, open, attr, i, m) ==
    IF m.ok THEN m ELSE HtmlAttrSearch(text, open, attr, i + 1)

\* the tag name at index i, \b after it
HtmlAttrTag(text, open, attr, i) ==
    IF i = 0 THEN NoMatch
    ELSE HtmlAttrFirst(text, open, attr, i,
                       IF i + Len(open) > Len(text) \/ text[i + Len(open)] \in WordChars
                       THEN NoMatch
                       ELSE HtmlAttrAt(text, i, open, attr, i + Len(open) + 1))

\* IMG_SRC_RE / A_HREF_RE .search(text, from): the leftmost match
HtmlAttrSearch(text, open, attr, from) == HtmlAttrTag(text, open, attr, Find(text, open, from))

RECURSIVE HtmlAttrSub(_, _, _, _)

\* html_repl for the match m (none left when ~m.ok)
HtmlAttrReplace(text, open, attr, from, m) ==
    IF ~m.ok THEN SubSeq(text, from, Len(text))
    ELSE SubSeq(text, from, m.s - 1) \o m.pre \o m.title
         \o ConvertTargetToRelative(m.target) \o m.title
         \o HtmlAttrSub(text, open, attr, m.e + 1)

\* IMG_SRC_RE / A_HREF_RE .sub(html_repl, text) from index from on
HtmlAttrSub(text, open, attr, from) ==
    HtmlAttrReplace(text, open, attr, from, HtmlAttrSearch(text, open, attr, from))

ImgOpen == <<"<", "i", "m", "g">>
SrcEq == <<"s", "r", "c", "=">>
AOpen == <<"<", "a">>
HrefEq == <<"h", "r", "e", "f", "=">>

\* convert_paths_in_text(text, file_path)
ConvertPathsInText(text) ==
    HtmlAttrSub(HtmlAttrSub(MdLinkSub(text, 1), ImgOpen, SrcEq, 1), AOpen, HrefEq, 1)

(***************************************************************************)
(* scripts/normalize_toc_links.py                                          *)
(***************************************************************************)

Extensions == << <<"m", "d">>, <<"g", "f", "m">>, <<"m", "a", "r", "k", "d", "o", "w", "n">> >>

\* the text at index d is ".", an extension and "#": the index of that "#"
HashAfterExt(text, d) ==
    LET hits == {n \in 1..Len(Extensions) :
                    /\ d + Len(Extensions[n]) + 1 <= Len(text)
                    /\ text[d] = "."
                    /\ SubSeq(text, d + 1, d + Len(Extensions[n])) = Extensions[n]
                    /\ text[d + Len(Extensions[n]) + 1] = "#"}
    IN  IF hits = {} THEN 0 ELSE LET n == CHOOSE n \in hits : TRUE IN d + Len(Extensions[n]) + 1

\* [^)\s]+ is greedy: the last index d <= hi, after a non-empty path from
\* index i + 1, at which the extension and "#" follow
RECURSIVE LastExt(_, _, _)
LastExt(text, i, hi) ==
    IF hi < i + 2 THEN 0
    ELSE IF HashAfterExt(text, hi) # 0 THEN hi
    ELSE LastExt(text, i, hi - 1)

\* the end of the run of [^)\s] characters that starts at index k
RECURSIVE PathRunEnd(_, _)
PathRunEnd(text, k) ==
    IF k > Len(text) \/ text[k] = ")" \/ IsSpace(text[k]) THEN k - 1
    ELSE PathRunEnd(text, k + 1)

\* \((?:[^)\s]+)\.(?:md|gfm|markdown)(#[^)]+)\) tried at index i:
\* [found, h, c] with the anchor text[h .. c-1] and the closing ")" at c
TocMatchAt(text, i) ==
    LET d == LastExt(text, i, PathRunEnd(text, i + 1) + 1)
        h == IF d = 0 THEN 0 ELSE HashAfterExt(text, d)
        c == IF h = 0 THEN 0 ELSE Find(text, <<")">>, h + 1)
    IN  [found |-> c > h + 1, h |-> h, c |-> c]

\* pattern.sub(r"(\1)", text) from index from on
RECURSIVE TocSub(_, _)
TocSub(text, from) ==
    LET i == Find(text, <<"(">>, from)
        m == IF i = 0 THEN [found |-> FALSE, h |-> 0, c |-> 0] ELSE TocMatchAt(text, i)
    IN  IF i = 0 THEN SubSeq(text, from, Len(text))
        ELSE IF m.found
        THEN SubSeq(text, from, i) \o SubSeq(text, m.h, m.c) \o TocSub(text, m.c + 1)
        ELSE SubSeq(text, from, i) \o TocSub(text, i + 1)

\* strip_to_anchors(text)
strip_to_anchors(text) == TocSub(text, 1)

\* \.(?:md|gfm|markdown)(?=(?:\)|#)) tried at index d of url: the length of
\* the extension that matched, 0 when none did
ExtAt(url, d) ==
    LET hits == {n \in 1..Len(Extensions) :
                    /\ url[d] = "."
                    /\ d + Len(Extensions[n]) + 1 <= Len(url)
                    /\ SubSeq(url, d + 1, d + Len(Extensions[n])) = Extensions[n]
                    /\ url[d + Len(Extensions[n]) + 1] \in {")", "#"}}
    IN  IF hits = {} THEN 0 ELSE Len(Extensions[CHOOSE n \in hits : TRUE])

\* re.sub(..., f".{ext}", url) from index from on
RECURSIVE ExtSub(_, _, _)
ExtSubAt(url, ext, from, n) ==
    IF n # 0 THEN <<".">> \o ext \o ExtSub(url, ext, from + n + 1)
    ELSE <<url[from]>> \o ExtSub(url, ext, from + 1)

ExtSub(url, ext, from) ==
    IF from > Len(url) THEN <<>> ELSE ExtSubAt(url, ext, from, ExtAt(url, from))

\* repl(m): "(" + the url with its extensions swapped + ")"
ExtRepl(url, ext) == <<"(">> \o ExtSub(url, ext, 1) \o <<")">>

\* re.sub(r"\(([^)]+)\)", repl, text) from index from on; i is the next "("
\* and c the first ")" after it
RECURSIVE LinkSub(_, _, _)
LinkSubAt(text, ext, from, i, c) ==
    IF i = 0 THEN SubSeq(text, from, Len(text))
    ELSE IF c > i + 1
    THEN SubSeq(text, from, i - 1) \o ExtRepl(SubSeq(text, i + 1, c - 1), ext)
         \o LinkSub(text, ext, c + 1)
    ELSE SubSeq(text, from, i) \o LinkSub(text, ext, i + 1)

LinkSubFrom(text, ext, from, i) ==
    LinkSubAt(text, ext, from, i, IF i = 0 THEN 0 ELSE Find(text, <<")">>, i + 1))

LinkSub(text, ext, from) == LinkSubFrom(text, ext, from, Find(text, <<"(">>, from))

\* replace_extension(text, ext)
replace_extension(text, ext) == LinkSub(text, ext, 1)

(***************************************************************************)
(* scripts/convert_img_tags.py                                             *)
(***************************************************************************)

\* the characters of an attribute name in code point order (sorted() compares
\* by code point); names are lower case after .lower()
CodePoints == <<"-", ".", "0", "1", "2", "3", "4", "5", "6", "7", "8", "9", ":", "_",
                "a", "b", "c", "d", "e", "f", "g", "h", "i", "j", "k", "l", "m",
                "n", "o", "p", "q", "r", "s", "t", "u", "v", "w", "x", "y", "z">>

Ord(ch) == CHOOSE n \in 1..Len(CodePoints) : CodePoints[n] = ch

RECURSIVE StrLess(_, _)
StrLess(a, b) ==
    IF b = <<>> THEN FALSE
    ELSE IF a = <<>> THEN TRUE
    ELSE IF a[1] = b[1] THEN StrLess(Tail(a), Tail(b))
    ELSE Ord(a[1]) < Ord(b[1])

KeyStart == Letters \cup {"_", ":"}
KeyChars == Letters \cup Digits \cup {":", ".", "_", "-"}

RECURSIVE KeyRunEnd(_, _)
KeyRunEnd(s, k) == IF k > Len(s) \/ s[k] \notin KeyChars THEN k - 1 ELSE KeyRunEnd(s, k + 1)

\* ATTR_RE.match(s, k): [ok, e, key, value]
AttrMatchAt(s, k) ==
    LET ke == KeyRunEnd(s, k)
        eq == ke + 1 + SpaceRun(s, ke + 1)
        qp == eq + 1 + SpaceRun(s, eq + 1)
        q == IF eq <= Len(s) /\ s[eq] = "=" /\ qp <= Len(s) THEN s[qp] ELSE ""
        close == IF q \in Quotes THEN Find(s, <<q>>, qp + 1) ELSE 0
    IN  IF s[k] \in KeyStart /\ close # 0
        THEN [ok |-> TRUE, e |-> close, key |-> SubSeq(s, k, ke),
              value |-> SubSeq(s, qp + 1, close - 1)]
        ELSE [ok |-> FALSE, e |-> 0, key |-> <<>>, value |-> <<>>]

\* attrs[key] = value on a dict kept as a sequence of <<key, value>>
DictSet(attrs, key, value) ==
    IF \E n \in 1..Len(attrs) : attrs[n][1] = key
    THEN [n \in 1..Len(attrs) |-> IF attrs[n][1] = key THEN <<key, value>> ELSE attrs[n]]
    ELSE Append(attrs, <<key, value>>)

HasKey(attrs, key) == \E n \in 1..Len(attrs) : attrs[n][1] = key
DictGet(attrs, key) == attrs[CHOOSE n \in 1..Len(attrs) : attrs[n][1] = key][2]

\* parse_img_attributes(attr_text), scanning from index k
RECURSIVE ParseAttrs(_, _, _)
ParseAttrs(s, k, attrs) ==
    IF k > Len(s) THEN attrs
    ELSE LET m == AttrMatchAt(s, k)
         IN  IF m.ok THEN ParseAttrs(s, m.e + 1, DictSet(attrs, m.key, m.value))
             ELSE ParseAttrs(s, k + 1, attrs)

parse_img_attributes(attr_text) == ParseAttrs(attr_text, 1, <<>>)

\* sorted(k for k in attrs if k not in {"src", "alt"}): the least key first
RECURSIVE SortedKeys(_)
SortedKeys(keys) ==
    IF keys = {} THEN <<>>
    ELSE LET k == CHOOSE k \in keys : \A o \in keys : o = k \/ StrLess(k, o)
         IN  <<k>> \o SortedKeys(keys \ {k})

Src == <<"s", "r", "c">>
Alt == <<"a", "l", "t">>

\* " ".join(f'{k}="{v}"' for k, v in ordered)
RECURSIVE JoinAttrs(_, _)
JoinAttrs(attrs, keys) ==
    IF keys = <<>> THEN <<>>
    ELSE Head(keys) \o <<"=", "\"">> \o DictGet(attrs, Head(keys)) \o <<"\"">>
         \o (IF Len(keys) > 1 THEN <<" ">> ELSE <<>>) \o JoinAttrs(attrs, Tail(keys))

\* f"<img{' ' if inside else ''}{inside}>"
ImgTagOf(inside) == ImgOpen \o (IF inside # <<>> THEN <<" ">> ELSE <<>>) \o inside \o <<">">>

\* ordered of build_img_tag: src, alt, then the other keys sorted
OrderedKeys(attrs) ==
    (IF HasKey(attrs, Src) THEN <<Src>> ELSE <<>>)
    \o (IF HasKey(attrs, Alt) THEN <<Alt>> ELSE <<>>)
    \o SortedKeys({attrs[n][1] : n \in 1..Len(attrs)} \ {Src, Alt})

\* build_img_tag(attrs)
build_img_tag(attrs) == ImgTagOf(JoinAttrs(attrs, OrderedKeys(attrs)))

\* the end of repl: attrs["src"] = new and converted += 1 when the src
\* qualified, then build_img_tag(attrs)
ImgRebuilt(attrs, hit, new) ==
    [tag |-> build_img_tag(IF hit THEN DictSet(attrs, Src, new) ELSE attrs),
     converted |-> IF hit THEN 1 ELSE 0]

\* the two branches of repl on to_absolute, resolved being the resolved path
\* of the src (against the file's directory when the src is relative)
ImgSrcBranch(attrs, src, to_absolute, resolved) ==
    IF to_absolute
    THEN ImgRebuilt(attrs, ~IsAbs(src) /\ Exists(resolved), PathStr(resolved))
    ELSE ImgRebuilt(attrs, IsAbs(src) /\ IsPrefix(ASSETS_DIR, resolved),
                    JoinSlash(RelPath(resolved, MdDir)))

ImgSrc(attrs, src, to_absolute) == ImgSrcBranch(attrs, src, to_absolute, Resolve(MdDir, src))

\* repl of _convert_src_for_file on the parsed attributes: [tag, converted],
\* tag being <<>> when the tag is returned as it stands (no src)
ImgReplAttrs(attrs, to_absolute) ==
    IF ~HasKey(attrs, Src) THEN [tag |-> <<>>, converted |-> 0]
    ELSE ImgSrc(attrs, DictGet(attrs, Src), to_absolute)

\* repl of _convert_src_for_file for the attribute text of one tag
ImgRepl(raw_attrs, to_absolute) == ImgReplAttrs(parse_img_attributes(raw_attrs), to_absolute)

\* the text and the count of a substitution: what precedes the match, the
\* replacement, and the substitution of the rest
ImgJoin(before, r, whole, rest) ==
    [text |-> before \o (IF r.tag = <<>> THEN whole ELSE r.tag) \o rest.text,
     converted |-> r.converted + rest.converted]

ImgSkip(before, rest) == [text |-> before \o rest.text, converted |-> rest.converted]

RECURSIVE ImgTagSub(_, _, _)

\* IMG_TAG_RE tried at index i, g being the index of the next ">"
ImgTagAt(text, from, to_absolute, i, g) ==
    IF g # 0 /\ text[i + 4] \notin WordChars
    THEN ImgJoin(SubSeq(text, from, i - 1), ImgRepl(SubSeq(text, i + 4, g - 1), to_absolute),
                 SubSeq(text, i, g), ImgTagSub(text, g + 1, to_absolute))
    ELSE ImgSkip(SubSeq(text, from, i), ImgTagSub(text, i + 1, to_absolute))

ImgTagFrom(text, from, to_absolute, i) ==
    IF i = 0 THEN [text |-> SubSeq(text, from, Len(text)), converted |-> 0]
    ELSE ImgTagAt(text, from, to_absolute, i, Find(text, <<">">>, i + 4))

\* IMG_TAG_RE.sub(repl, original) from index from on: [text, converted]
ImgTagSub(text, from, to_absolute) == ImgTagFrom(text, from, to_absolute, Find(text, ImgOpen, from))

\* _convert_src_for_file(md_file, to_absolute, assets_dir) on the file's text
convert_src_for_file(original, to_absolute) == ImgTagSub(original, 1, to_absolute)

(***************************************************************************)
(* The Markdown file manuscript/chapters/f.md under the two path rewriters *)
(***************************************************************************)

\* a text is at most MaxFrags fragments long
MaxFrags == 3
\* at most MaxOps rewrite calls are made on the file
MaxOps == 2

RECURSIVE TextsOf(_, _)
TextsOf(frags, n) ==
    IF n = 0 THEN {<<>>}
    ELSE LET shorter == TextsOf(frags, n - 1)
         IN  shorter \cup {t \o f : t \in shorter, f \in frags}

\* ![x](../../a/i): a relative target of the existing image under assets
RelTag == <<"!", "[", "x", "]", "(", ".", ".", "/", ".", ".", "/", "a", "/", "i", ")">>
\* ![x](./../../a/i): the same image, written with a leading "./"
DotRelTag == <<"!", "[", "x", "]", "(", ".", "/", ".", ".", "/", ".", ".", "/", "a", "/", "i", ")">>
\* ![x](m): a relative target that is not on disk
MissingTag == <<"!", "[", "x", "]", "(", "m", ")">>
\* ![y](/p/a/i): an absolute target inside the assets directory
AbsTag == <<"!", "[", "y", "]", "(", "/", "p", "/", "a", "/", "i", ")">>
\* an inline code span whose backticks enclose a fenced block
QuotedFence == <<Tick, "q">> \o Fence3 \o <<"b">> \o Fence3 \o <<"q", Tick>>
\* the eleven characters {{FENCE_0}} written in the file by its author
TokenText == <<Token("FENCE", 0)>>
\* [w]( h:u): a link to a URL, with a blank after the parenthesis
UrlLink == <<"[", "w", "]", "(", " ", "h", ":", "u", ")">>

\* an inline code span that quotes the relative reference
InlineTag == <<Tick>> \o RelTag \o <<Tick>>

MdFrags == {RelTag, DotRelTag, MissingTag, AbsTag, QuotedFence, TokenText, UrlLink,
            InlineTag, <<Tick>>, Fence3}

Idle ==
    /\ toc = <<>> /\ tocOrig = <<>> /\ tocRuns = <<>>
    /\ pc = [at |-> "idle", i |-> 0]
    /\ tree = <<>> /\ tree0 = <<>> /\ opts = <<>> /\ calls = <<>>
    /\ outcome = "idle"
    /\ env = <<>>

Init ==
    /\ file \in TextsOf(MdFrags, MaxFrags)
    /\ orig = file
    /\ hist = <<>>
    /\ Idle

\* the write "if updated != original" and the value returned, r being the
\* result of _convert_images_in_text
WriteAbsolute(r) ==
    /\ file' = IF r.text # file THEN r.text ELSE file
    /\ hist' = Append(hist, [op |-> "convert_file_to_absolute", before |-> file,
                             wrote |-> r.text # file, changed |-> r.text # file,
                             converted |-> IF r.text # file THEN r.converted ELSE 0])

\* convert_file_to_absolute(md_file): writes only a changed text and then
\* returns (True, count), else (False, 0)
convert_file_to_absolute ==
    /\ Len(hist) < MaxOps
    /\ WriteAbsolute(ConvertImagesInText(file))
    /\ UNCHANGED <<orig, toc, tocOrig, tocRuns, pc, tree, tree0, opts, calls, outcome, env>>

\* the write "if converted != original" and the value returned
WriteRelative(converted) ==
    /\ file' = IF converted # file THEN converted ELSE file
    /\ hist' = Append(hist, [op |-> "process_md_file", before |-> file,
                             wrote |-> converted # file, changed |-> converted # file])

\* process_md_file(md_file) of convert_to_relative.py
process_md_file ==
    /\ Len(hist) < MaxOps
    /\ WriteRelative(ConvertPathsInText(file))
    /\ UNCHANGED <<orig, toc, tocOrig, tocRuns, pc, tree, tree0, opts, calls, outcome, env>>

Next == convert_file_to_absolute \/ process_md_file

Spec == Init /\ [][Next]_vars

(***************************************************************************)
(* Properties of the two path rewriters                                    *)
(***************************************************************************)

ToAbs == "convert_file_to_absolute"
ToRel == "process_md_file"

\* the text the first call left behind
AfterFirst == IF Len(hist) = 1 THEN file ELSE hist[2].before

\* the indices covered by three-backtick fences: an opening marker and the
\* next marker after it, from index from on
RECURSIVE FencePositions(_, _)
FencePositions(text, from) ==
    LET opens == {i \in from..Len(text) - 2 : SubSeq(text, i, i + 2) = Fence3}
        i == IF opens = {} THEN 0 ELSE CHOOSE i \in opens : \A o \in opens : i <= o
        closes == {j \in i + 3..Len(text) - 2 : SubSeq(text, j, j + 2) = Fence3}
        j == IF i = 0 \/ closes = {} THEN 0 ELSE CHOOSE j \in closes : \A o \in closes : j <= o
    IN  IF j = 0 THEN {} ELSE (i..j + 2) \cup FencePositions(text, j + 3)

\* the indices covered by inline code spans: the backticks outside the fences,
\* paired in order of appearance
InlinePositions(text) ==
    LET fenced == FencePositions(text, 1)
        ticks == {i \in 1..Len(text) : text[i] = Tick /\ i \notin fenced}
        rank(i) == Cardinality({t \in ticks : t <= i})
    IN  UNION {a..b : <<a, b>> \in {<<a, b>> \in ticks \X ticks :
                                        rank(a) % 2 = 1 /\ rank(b) = rank(a) + 1}}

CodePositions(text) == FencePositions(text, 1) \cup InlinePositions(text)

\* where tag is written in text
TagStarts(text, tag) ==
    {i \in 1..Len(text) : i + Len(tag) - 1 <= Len(text) /\ SubSeq(text, i, i + Len(tag) - 1) = tag}

\* the references whose relative target is on disk
Convertible == {RelTag, DotRelTag}
\* what such a reference becomes: ![x](/p/a/i)
Converted == <<"!", "[", "x", "]", "(", "/", "p", "/", "a", "/", "i", ")">>

OutsideCode(text) ==
    Cardinality({i \in 1..Len(text) : i \notin CodePositions(text)
                                      /\ \E tag \in Convertible : i \in TagStarts(text, tag)})
InsideCode(text, tag) == Cardinality(TagStarts(text, tag) \cap CodePositions(text))

\* the targets of the image tags of a text, in order
RECURSIVE ImageTargets(_, _)
ImageTargets(text, pos) ==
    LET tag == FindImageTag(text, pos)
    IN  IF ~tag.found THEN <<>>
        ELSE <<SplitInsideParens(tag.inside).target>> \o ImageTargets(text, tag.e + 1)

\* C2: for a text whose image references are relative targets of the existing
\* asset, convert_to_absolute followed by convert_to_relative yields the
\* original relative target strings
C2_RoundTripTargets ==
    (/\ Len(hist) = 2
     /\ hist[1].op = ToAbs
     /\ hist[2].op = ToRel
     /\ orig \in TextsOf(Convertible, MaxFrags))
        => ImageTargets(file, 1) = ImageTargets(orig, 1)

\* C3: a second consecutive application of the same rewrite leaves the text
\* as the first left it and reports no change and no converted reference
C3_SecondRunNoChange ==
    (Len(hist) = 2 /\ hist[1].op = hist[2].op)
        => /\ file = hist[2].before
           /\ ~hist[2].changed
           /\ (hist[2].op = ToAbs => hist[2].converted = 0)

\* C4: convert_to_absolute converts and counts exactly the references to
\* existing files that lie outside fenced blocks and inline code spans; a
\* reference inside such a region is never converted
C4_CodeRegionsSkipped ==
    (Len(hist) >= 1 /\ hist[1].op = ToAbs)
        => /\ hist[1].converted = OutsideCode(orig)
           /\ Occurrences(AfterFirst, Converted, 1) = OutsideCode(orig)

\* a reference to an existing file inside code and one outside it have been
\* through convert_to_absolute, and one reference was converted
C4_Witness ==
    /\ Len(hist) = 1
    /\ hist[1].op = ToAbs
    /\ InsideCode(orig, RelTag) = 1
    /\ OutsideCode(orig) = 1
    /\ hist[1].converted = 1

\* C5: the absolute-to-relative pass leaves an absolute path under assets
\* that is written inside code exactly as written
C5_RelativeSkipsCode ==
    (Len(hist) >= 1 /\ hist[1].op = ToRel)
        => Occurrences(AfterFirst, AbsTag, 1) >= InsideCode(orig, AbsTag)

\* C6: a file whose relative image target is not on disk, and which holds no
\* reference to an existing file, is equal before and after
\* convert_to_absolute, is not written and has no conversion counted
C6_MissingUntouched ==
    (/\ Len(hist) >= 1
     /\ hist[1].op = ToAbs
     /\ Contains(orig, MissingTag)
     /\ \A tag \in Convertible : ~Contains(orig, tag))
        => /\ AfterFirst = orig
           /\ ~hist[1].wrote
           /\ hist[1].converted = 0

\* C7: for a text that holds no absolute path inside the assets directory,
\* the output of convert_to_relative equals the input
C7_OnlyAssetsRewritten ==
    (/\ Len(hist) >= 1
     /\ hist[1].op = ToRel
     /\ ~Contains(orig, PathStr(ASSETS_DIR)))
        => AfterFirst = orig

(***************************************************************************)
(* convert_to_absolute alone, on texts of code regions and references      *)
(***************************************************************************)

CodeFrags == {RelTag, MissingTag, InlineTag, QuotedFence, TokenText, <<Tick>>, Fence3}

AbsInit ==
    /\ file \in TextsOf(CodeFrags, MaxFrags)
    /\ orig = file
    /\ hist = <<>>
    /\ Idle

AbsSpec == AbsInit /\ [][convert_file_to_absolute]_vars

(***************************************************************************)
(* The TOC file under normalize_toc_links.py --mode strip-to-anchors       *)
(***************************************************************************)

\* (c.md#a), (c.gfm#a), (c.markdown#a): link targets with a path and an anchor
MdLink == <<"(", "c", ".", "m", "d", "#", "a", ")">>
GfmLink == <<"(", "c", ".", "g", "f", "m", "#", "a", ")">>
MarkdownLink == <<"(", "c", ".", "m", "a", "r", "k", "d", "o", "w", "n", "#", "a", ")">>
\* (#a): a pure anchor
AnchorLink == <<"(", "#", "a", ")">>
\* "(c.md#a ": a parenthesis that opens before a path with an anchor and is
\* not closed before the blank
OpenRef == <<"(", "c", ".", "m", "d", "#", "a", " ">>

TocFrags == {MdLink, GfmLink, MarkdownLink, AnchorLink, OpenRef, <<"[", "t", "]">>, <<")">>}

TocInit ==
    /\ toc \in TextsOf(TocFrags, MaxFrags)
    /\ tocOrig = toc
    /\ tocRuns = <<>>
    /\ file = <<>> /\ orig = <<>> /\ hist = <<>>
    /\ pc = [at |-> "idle", i |-> 0]
    /\ tree = <<>> /\ tree0 = <<>> /\ opts = <<>> /\ calls = <<>>
    /\ outcome = "idle"
    /\ env = <<>>

\* "if new_text != text: toc_path.write_text(new_text)"
WriteToc(new_text) ==
    /\ toc' = IF new_text # toc THEN new_text ELSE toc
    /\ tocRuns' = Append(tocRuns, [before |-> toc, wrote |-> new_text # toc])

\* main() of normalize_toc_links.py with --mode strip-to-anchors on an
\* existing TOC file: the file is written only when the text changed
normalize_toc_links ==
    /\ Len(tocRuns) < MaxOps
    /\ WriteToc(strip_to_anchors(toc))
    /\ UNCHANGED <<file, orig, hist, tocOrig, pc, tree, tree0, opts, calls, outcome, env>>

TocSpec == TocInit /\ [][normalize_toc_links]_vars

\* the text the first run of the normalizer left behind
TocAfterFirst == IF Len(tocRuns) = 1 THEN toc ELSE tocRuns[2].before

ExtLinks == {MdLink, GfmLink, MarkdownLink}

\* C9: after strip_to_anchors no link target of the form (path.md#anchor),
\* (path.gfm#anchor) or (path.markdown#anchor) is left, and the pure anchors
\* of the input are still there
C9_EveryLinkStripped ==
    Len(tocRuns) >= 1
        => /\ \A link \in ExtLinks : ~Contains(TocAfterFirst, link)
           /\ Occurrences(TocAfterFirst, AnchorLink, 1) >= Occurrences(tocOrig, AnchorLink, 1)

\* C10: strip_to_anchors applied to its own output rewrites nothing
C10_StripIdempotent ==
    Len(tocRuns) = 2 => (toc = tocRuns[2].before /\ ~tocRuns[2].wrote)

(***************************************************************************)
(* The TOC file under normalize_toc_links.py --mode replace-ext            *)
(***************************************************************************)

\* (c.md), (c.gfm): link targets that end with the extension
PlainMd == <<"(", "c", ".", "m", "d", ")">>
PlainGfm == <<"(", "c", ".", "g", "f", "m", ")">>

ExtFrags == {MdLink, GfmLink, MarkdownLink, AnchorLink, PlainMd, PlainGfm, <<"[", "t", "]">>}

\* the values of --ext
TargetExts == {<<"m", "d">>, <<"g", "f", "m">>}

ExtInit ==
    /\ toc \in TextsOf(ExtFrags, MaxFrags)
    /\ tocOrig = toc
    /\ tocRuns = <<>>
    /\ opts \in [ext : TargetExts]
    /\ file = <<>> /\ orig = <<>> /\ hist = <<>>
    /\ pc = [at |-> "idle", i |-> 0]
    /\ tree = <<>> /\ tree0 = <<>> /\ calls = <<>>
    /\ outcome = "idle"
    /\ env = <<>>

\* main() of normalize_toc_links.py with --mode replace-ext --ext opts.ext on
\* an existing TOC file: the file is written only when the text changed
normalize_replace_ext ==
    /\ Len(tocRuns) < MaxOps
    /\ WriteToc(replace_extension(toc, opts.ext))
    /\ UNCHANGED <<file, orig, hist, tocOrig, pc, tree, tree0, opts, calls, outcome, env>>

ExtSpec == ExtInit /\ [][normalize_replace_ext]_vars

\* the link (c.<ext>#a) and the link (c.<ext>)
AnchoredWith(ext) == <<"(", "c", ".">> \o ext \o <<"#", "a", ")">>
PlainWith(ext) == <<"(", "c", ".">> \o ext \o <<")">>

\* how many links of the TOC text end their file part with one of the three
\* extensions, before an anchor and at the end of the target
AnchoredLinks(text) ==
    Occurrences(text, MdLink, 1) + Occurrences(text, GfmLink, 1)
        + Occurrences(text, MarkdownLink, 1)
PlainLinks(text) == Occurrences(text, PlainMd, 1) + Occurrences(text, PlainGfm, 1)

\* C11: after replace-ext every link whose file part ended in .md, .gfm or
\* .markdown, before "#anchor" or at the end of the target, carries the
\* requested extension with path and anchor as they were, and the pure
\* anchors are as they were
C11_ExtensionReplaced ==
    Len(tocRuns) >= 1
        => /\ Occurrences(TocAfterFirst, AnchoredWith(opts.ext), 1) = AnchoredLinks(tocOrig)
           /\ Occurrences(TocAfterFirst, PlainWith(opts.ext), 1) = PlainLinks(tocOrig)
           /\ Occurrences(TocAfterFirst, AnchorLink, 1) = Occurrences(tocOrig, AnchorLink, 1)

(***************************************************************************)
(* exporter/pandoc_cmd.py: collect_md_files                                *)
(***************************************************************************)

MaxSections == 2

\* Path.suffix of a file name: from the last "." on, unless that "." is the
\* first or the last character
RECURSIVE LastDot(_, _)
LastDot(name, k) == IF k = 0 \/ name[k] = "." THEN k ELSE LastDot(name, k - 1)

Suffix(name) ==
    LET i == LastDot(name, Len(name))
    IN  IF 1 < i /\ i < Len(name) THEN SubSeq(name, i, Len(name)) ELSE <<>>

\* sorted(...) of the listed paths of one directory, which differ in their
\* last component only: insertion into the ordered prefix
RECURSIVE InsertSorted(_, _)
InsertSorted(name, sorted) ==
    IF sorted = <<>> THEN <<name>>
    ELSE IF StrLess(name, Head(sorted)) THEN <<name>> \o sorted
    ELSE <<Head(sorted)>> \o InsertSorted(name, Tail(sorted))

SortListing_AsListed(listing) == listing

RECURSIVE SortListing(_)
SortListing(listing) ==
    IF listing = <<>> THEN <<>>
    ELSE InsertSorted(Head(listing), SortListing(Tail(listing)))

\* [x for x in p.iterdir() if x.suffix == ".md"]
RECURSIVE MdOnly(_)
MdOnly(listing) ==
    IF listing = <<>> THEN <<>>
    ELSE (IF Suffix(Head(listing)) = <<".", "m", "d">> THEN <<Head(listing)>> ELSE <<>>)
         \o MdOnly(Tail(listing))

\* the sections a manifest can name: a file, a directory, and a name that is
\* neither
SecFile == "front-matter/toc.md"
SecDir == "chapters"
SecNone == "back-matter/index.md"
Sections == {SecFile, SecDir, SecNone}

\* the entries the directory can hold
DirNames == {<<"2", ".", "m", "d">>, <<"1", "0", ".", "m", "d">>, <<"n", ".", "t", "x", "t">>}

IsDir(fs, section) == section = SecDir
IsFile(fs, section) == section = SecFile /\ fs.has_file

\* one pass of the loop over section_order; listed[n] is what iterdir yields
\* for the n-th section
ExpandSection(fs, section, listing) ==
    IF IsDir(fs, section)
    THEN [n \in 1..Len(SortListing(MdOnly(listing))) |->
             <<section, SortListing(MdOnly(listing))[n]>>]
    ELSE IF IsFile(fs, section) THEN << <<section>> >>
    ELSE <<>>

RECURSIVE CollectFrom(_, _, _, _)
CollectFrom(fs, section_order, listed, n) ==
    IF n > Len(section_order) THEN <<>>
    ELSE ExpandSection(fs, section_order[n], listed[n])
         \o CollectFrom(fs, section_order, listed, n + 1)

\* the orders in which the filesystem can list a set of names
RECURSIVE Listings(_)
Listings(names) ==
    IF names = {} THEN {<<>>}
    ELSE UNION {{<<x>> \o l : l \in Listings(names \ {x})} : x \in names}

\* one listing for every section of the manifest that is a directory
RECURSIVE ListedChoices(_, _, _)
ListedChoices(fs, section_order, n) ==
    IF n > Len(section_order) THEN {<<>>}
    ELSE LET here == IF IsDir(fs, section_order[n]) THEN Listings(fs.dir) ELSE {<<>>}
         IN  {<<l>> \o rest : l \in here, rest \in ListedChoices(fs, section_order, n + 1)}

RECURSIVE SeqsUpTo(_, _)
SeqsUpTo(S, n) ==
    IF n = 0 THEN {<<>>}
    ELSE LET shorter == SeqsUpTo(S, n - 1)
         IN  shorter \cup {Append(q, x) : q \in shorter, x \in S}

CollectInit ==
    /\ tree \in [has_file : BOOLEAN, dir : SUBSET DirNames]
    /\ tree0 = tree
    /\ opts \in [section_order : SeqsUpTo(Sections, MaxSections)]
    /\ calls = <<>>
    /\ hist = <<>>
    /\ file = <<>> /\ orig = <<>>
    /\ toc = <<>> /\ tocOrig = <<>> /\ tocRuns = <<>>
    /\ pc = [at |-> "idle", i |-> 0]
    /\ outcome = "idle"
    /\ env = <<>>

\* one call of collect_md_files(book_dir, section_order); hist keeps what the
\* directory listings of this call were, calls what each call returned
Collected(listed) ==
    /\ hist' = listed
    /\ calls' = Append(calls, CollectFrom(tree, opts.section_order, listed, 1))

collect_md_files ==
    /\ Len(calls) < MaxOps
    /\ \E listed \in ListedChoices(tree, opts.section_order, 1) : Collected(listed)
    /\ UNCHANGED <<file, orig, toc, tocOrig, tocRuns, pc, tree, tree0, opts, outcome, env>>

CollectSpec == CollectInit /\ [][collect_md_files]_vars

\* the .md names of the directory in ascending order
MdNamesInOrder == SortedKeys({x \in tree.dir : Suffix(x) = <<".", "m", "d">>})

\* what the n-th manifest entry stands for
EntryFiles(n) ==
    IF opts.section_order[n] = SecDir
    THEN [k \in 1..Len(MdNamesInOrder) |-> <<SecDir, MdNamesInOrder[k]>>]
    ELSE IF opts.section_order[n] = SecFile /\ tree.has_file THEN << <<SecFile>> >>
    ELSE <<>>

RECURSIVE ManifestFiles(_)
ManifestFiles(n) ==
    IF n > Len(opts.section_order) THEN <<>> ELSE EntryFiles(n) \o ManifestFiles(n + 1)

\* C12: every call of collect_md_files returns the entries in manifest order,
\* a directory entry standing for its .md files in ascending order, whatever
\* the order in which the directory was listed
C12_ManifestThenLexicographic ==
    \A k \in 1..Len(calls) : calls[k] = ManifestFiles(1)

\* a second call has returned; its manifest names the file and then the
\* directory, whose two .md files were listed in descending order
C12_Witness ==
    /\ Len(calls) = 2
    /\ opts.section_order = <<SecFile, SecDir>>
    /\ tree.has_file
    /\ tree.dir = DirNames
    /\ hist[2] = << <<"2", ".", "m", "d">>, <<"n", ".", "t", "x", "t">>, <<"1", "0", ".", "m", "d">> >>
    /\ Len(calls[2]) = 3

(***************************************************************************)
(* exporter/fsops.py: prepare_output_folder                                *)
(***************************************************************************)

\* a path of the filesystem: nothing there, a regular file, or a directory
\* with the entries below it (each a path relative to the directory)
Absent == [kind |-> "absent", items |-> {}]
RegularFile == [kind |-> "file", items |-> {}]
EmptyDir == [kind |-> "dir", items |-> {}]

\* basename of ProjectPaths.output_dir
OutputName == "output"

\* "if backup_dir.exists(): shutil.rmtree(backup_dir)"; rmtree of a regular
\* file raises NotADirectoryError
RemoveBackup_Kept(fs) == [fs |-> fs, raised |-> FALSE]

\* an rmdir in place of the rmtree: only an empty backup directory goes
RemoveBackup_OnlyEmpty(fs) ==
    [fs |-> IF fs.bak = EmptyDir THEN [fs EXCEPT !.bak = Absent] ELSE fs, raised |-> FALSE]

RemoveBackup(fs) ==
    IF fs.bak.kind = "absent" THEN [fs |-> fs, raised |-> FALSE]
    ELSE IF fs.bak.kind = "dir" THEN [fs |-> [fs EXCEPT !.bak = Absent], raised |-> FALSE]
    ELSE [fs |-> fs, raised |-> TRUE]

\* shutil.move(str(output_dir), str(backup_dir)): a rename when the
\* destination does not exist, a move into the destination when it is a
\* directory without an entry of that name, an error otherwise
ShutilMove(fs) ==
    IF fs.bak.kind = "absent"
    THEN [fs |-> [out |-> Absent, bak |-> fs.out], raised |-> FALSE]
    ELSE IF fs.bak.kind = "dir" /\ \A q \in fs.bak.items : Head(q) # OutputName
    THEN [fs |-> [out |-> Absent,
                  bak |-> [kind |-> "dir",
                           items |-> fs.bak.items
                                     \cup {<<OutputName>> \o q : q \in fs.out.items}]],
          raised |-> FALSE]
    ELSE [fs |-> fs, raised |-> TRUE]

\* "if output_dir.exists() and any(output_dir.iterdir())": iterdir of a
\* regular file raises NotADirectoryError
MoveOutput(r) ==
    IF r.raised THEN r
    ELSE IF r.fs.out.kind = "file" THEN [r EXCEPT !.raised = TRUE]
    ELSE IF r.fs.out.kind = "dir" /\ r.fs.out.items # {} THEN ShutilMove(r.fs)
    ELSE r

\* output_dir.mkdir(parents=True, exist_ok=True)
MakeOutput(r) ==
    IF r.raised THEN r
    ELSE IF r.fs.out.kind = "absent" THEN [r EXCEPT !.fs.out = EmptyDir]
    ELSE IF r.fs.out.kind = "file" THEN [r EXCEPT !.raised = TRUE]
    ELSE r

PrepareOutputFolder(fs) == MakeOutput(MoveOutput(RemoveBackup(fs)))

\* what the output and the backup directory can hold
OutputFiles == {<<"b.pdf">>, <<"b.epub">>}
DirItems == OutputFiles \cup {<<OutputName, "b.pdf">>}
Nodes == {Absent, RegularFile} \cup [kind : {"dir"}, items : SUBSET DirItems]

PrepInit ==
    /\ tree \in [out : Nodes, bak : Nodes]
    /\ tree0 = tree
    /\ hist = <<>>
    /\ calls = <<>>
    /\ pc = [at |-> "idle", i |-> 0]
    /\ opts = <<>>
    /\ file = <<>> /\ orig = <<>>
    /\ toc = <<>> /\ tocOrig = <<>> /\ tocRuns = <<>>
    /\ outcome = "idle"
    /\ env = <<>>

PrepFrame == UNCHANGED <<file, orig, toc, tocOrig, tocRuns, tree0, opts, outcome, env>>

\* one call of prepare_output_folder(output_dir, backup_dir); hist keeps the
\* filesystem the last call found, calls how each call ended
Prepared(r) ==
    /\ tree' = r.fs
    /\ hist' = <<tree>>
    /\ calls' = Append(calls, IF r.raised THEN "raised" ELSE "returned")
    /\ pc' = [at |-> IF r.raised THEN "raised" ELSE "prepared", i |-> 0]

prepare_output_folder ==
    /\ Len(calls) < MaxOps
    /\ Prepared(PrepareOutputFolder(tree))
    /\ PrepFrame

\* build_one: pandoc writes one output file into the output directory
pandoc_output ==
    /\ tree.out.kind = "dir"
    /\ \E f \in OutputFiles :
          /\ f \notin tree.out.items
          /\ tree' = [tree EXCEPT !.out.items = tree.out.items \cup {f}]
    /\ pc' = [at |-> "built", i |-> 0]
    /\ UNCHANGED <<hist, calls>>
    /\ PrepFrame

PrepNext == prepare_output_folder \/ pandoc_output

PrepSpec == PrepInit /\ [][PrepNext]_vars

ImgRel == ImgOpen \o <<" ">> \o SrcEq \o <<"\"">> \o <<".", ".", "/", ".", ".", "/", "a", "/", "i">> \o <<"\"", ">">>
\* <img src="/p/a/i">: an absolute src inside the assets directory
ImgAbs == ImgOpen \o <<" ">> \o SrcEq \o <<"\"">> \o <<"/", "p", "/", "a", "/", "i">> \o <<"\"", ">">>
\* <img alt="x" src="m"/>: a src that is not on disk, alt written first
ImgMissing == ImgOpen \o <<" ", "a", "l", "t", "=", "\"", "x", "\"", " ">> \o SrcEq
              \o <<"\"", "m", "\"", "/", ">">>
\* <img src='/p/o'>: an absolute src outside the assets directory
ImgOutside == ImgOpen \o <<" ">> \o SrcEq \o <<"'", "/", "p", "/", "o", "'", ">">>
\* <img w='1'>: a tag with no src
ImgNoSrc == ImgOpen \o <<" ", "w", "=", "'", "1", "'", ">">>

ImgFrags == {ImgRel, ImgAbs, ImgMissing, ImgOutside, ImgNoSrc, <<"x">>}

ImgInit ==
    /\ file \in TextsOf(ImgFrags, MaxFrags)
    /\ orig = file
    /\ hist = <<>>
    /\ Idle

\* the test "if converted > 0" of convert_markdown_tree
ShouldWrite_IfChanged(new_content, original, converted) == new_content # original
ShouldWrite(new_content, original, converted) == converted > 0

\* the loop body of convert_markdown_tree for the one Markdown file, r being
\* the result of _convert_src_for_file and write the outcome of the test
WriteImg(r, write, to_absolute) ==
    /\ file' = IF write THEN r.text ELSE file
    /\ hist' = Append(hist, [op |-> "convert_markdown_tree", to_absolute |-> to_absolute,
                             before |-> file, wrote |-> write,
                             files_changed |-> IF write THEN 1 ELSE 0,
                             tags_converted |-> IF write THEN r.converted ELSE 0])

TestAndWriteImg(r, to_absolute) == WriteImg(r, ShouldWrite(r.text, file, r.converted), to_absolute)

\* convert_markdown_tree(base_dir, [manuscript/chapters], to_absolute) over
\* the one Markdown file of the directory: (files_changed, tags_converted)
convert_markdown_tree(to_absolute) ==
    /\ Len(hist) < MaxOps
    /\ TestAndWriteImg(convert_src_for_file(file, to_absolute), to_absolute)
    /\ UNCHANGED <<orig, toc, tocOrig, tocRuns, pc, tree, tree0, opts, calls, outcome, env>>

img_to_absolute == convert_markdown_tree(TRUE)
img_to_relative == convert_markdown_tree(FALSE)

ImgNext == img_to_absolute \/ img_to_relative

ImgSpec == ImgInit /\ [][ImgNext]_vars

\* the text call k left behind
AfterCall(k) == IF k = Len(hist) THEN file ELSE hist[k + 1].before

\* a src of the text qualifies: relative and on disk for --to-absolute, absolute
\* and under assets for --to-relative
Qualifies(text, to_absolute) ==
    IF to_absolute THEN Contains(text, ImgRel) ELSE Contains(text, ImgAbs)

\* C8: the <img> rewriter saves the file only if it converted at least one
\* src; a file in which no src qualifies is left as it was and is not
\* counted as changed
C8_SavedOnlyIfConverted ==
    \A k \in 1..Len(hist) :
        /\ hist[k].wrote => hist[k].tags_converted >= 1
        /\ ~Qualifies(hist[k].before, hist[k].to_absolute)
              => /\ AfterCall(k) = hist[k].before
                 /\ ~hist[k].wrote
                 /\ hist[k].files_changed = 0

\* a file whose only tag has a missing src went through --to-absolute: the
\* rebuilt text differs from the file, and the file was not saved
C8_Witness ==
    /\ Len(hist) = 1
    /\ hist[1].to_absolute
    /\ orig = ImgMissing
    /\ convert_src_for_file(orig, TRUE).text # orig
    /\ file = orig
    /\ ~hist[1].wrote

(***************************************************************************)
(* exporter/pipeline.py: build_all over a manuscript of a TOC file         *)
(* (front-matter/toc.md, which may be absent) and one chapter              *)
(***************************************************************************)

\* ![x](<../../a/i>): the relative target in angle brackets
AngleTag == <<"!", "[", "x", "]", "(", "<", ".", ".", "/", ".", ".", "/", "a", "/", "i", ">", ")">>
\* <img alt="x" src="../../a/i"/>: the relative src after the alt, self-closed
ImgAltRel == ImgOpen \o <<" ", "a", "l", "t", "=", "\"", "x", "\"", " ">> \o SrcEq
             \o <<"\"", ".", ".", "/", ".", ".", "/", "a", "/", "i", "\"", "/", ">">>

Chapters == {RelTag, AngleTag, ImgRel, ImgAltRel, InlineTag}
Tocs == {<<"[", "t", "]">> \o AnchorLink, <<"[", "t", "]">> \o MdLink}

\* FORMATS of exporter/pandoc_cmd.py: the formats, the writer and extension
\* of each, and list(FORMATS.keys())
FORMATS == {"markdown", "pdf", "epub", "docx"}
FormatExt == [markdown |-> "gfm", pdf |-> "pdf", epub |-> "epub", docx |-> "docx"]
AllFormats == <<"markdown", "pdf", "epub", "docx">>

\* Python's None among strings, and the truth value of an optional string
None == "<None>"
Truthy(x) == x \notin {None, ""}

\* resolve_ext(fmt, custom_md_ext), fmt a key of FORMATS
resolve_ext(fmt, custom_md_ext) ==
    IF fmt = "markdown" /\ Truthy(custom_md_ext) THEN custom_md_ext ELSE FormatExt[fmt]

\* paths.output_dir / f"{output_basename}.{ext}"
OutPath(ext) == <<"output", "book", ext>>

\* DEFAULT_METADATA, the content of the temporary metadata file
DEFAULT_METADATA == [parse |-> "ok", language |-> None, lang |-> "en"]

\* get_metadata_lang on a file that yaml.safe_load reads as a mapping or
\* rejects with a YAMLError
get_metadata_lang(meta) ==
    IF meta.parse = "error" THEN None
    ELSE IF Truthy(meta.language) THEN meta.language
    ELSE meta.lang

\* lang_cli or get_metadata_lang(paths.metadata_file) or "en"
ResolveLang_MetadataFirst(lang_cli, meta_lang) ==
    IF Truthy(meta_lang) THEN meta_lang
    ELSE IF Truthy(lang_cli) THEN lang_cli
    ELSE "en"

ResolveLang(lang_cli, meta_lang) ==
    IF Truthy(lang_cli) THEN lang_cli
    ELSE IF Truthy(meta_lang) THEN meta_lang
    ELSE "en"

\* the metadata files a project can have: language and lang set, only lang,
\* an empty language, broken YAML, YAML that is not a mapping
ProjectMeta == [parse |-> "ok", language |-> None, lang |-> "de"]
Metas == {ProjectMeta,
          [parse |-> "ok", language |-> "fr", lang |-> "it"],
          [parse |-> "ok", language |-> "", lang |-> None],
          [parse |-> "error", language |-> None, lang |-> None],
          [parse |-> "scalar", language |-> None, lang |-> None]}

Manuscripts ==
    [has_toc : {TRUE}, toc : Tocs, ch : Chapters]
        \cup [has_toc : {FALSE}, toc : {<<>>}, ch : Chapters]
PlainManuscript == [has_toc |-> FALSE, toc |-> <<>>, ch |-> RelTag]

\* the arguments of build_all: every manuscript under the plain arguments,
\* and every combination of arguments on the plain manuscript; the section
\* order names the chapters directory or nothing at all
PlainOptions ==
    [skip_images : BOOLEAN, keep_relative : BOOLEAN,
     formats : {<<"epub">>, <<"epub", "bogus">>}, temp_metadata : BOOLEAN,
     lang_cli : {None}, custom_md_ext : {None}, meta : {ProjectMeta},
     section_order : {<<"chapters">>}]
Options ==
    [skip_images : BOOLEAN, keep_relative : BOOLEAN,
     formats : {<<>>, <<"epub">>, <<"epub", "bogus">>, <<"bogus", "epub">>, <<"pdf", "epub">>,
                <<"markdown">>},
     temp_metadata : BOOLEAN,
     lang_cli : {None, "", "es"}, custom_md_ext : {None, "md"}, meta : Metas,
     section_order : {<<"chapters">>, <<>>}]

BuildInit ==
    /\ tree0 \in Manuscripts
    /\ tree = tree0
    /\ opts \in Options
    /\ tree0 = PlainManuscript \/ opts \in PlainOptions
    /\ pc = [at |-> "start", i |-> 0]
    /\ calls = <<>>
    /\ outcome = "running"
    /\ env = [temp_file |-> "none", metadata_file |-> "unset", lang |-> "unset"]
    /\ file = <<>> /\ orig = <<>> /\ hist = <<>>
    /\ toc = <<>> /\ tocOrig = <<>> /\ tocRuns = <<>>

\* build_all touches neither its arguments nor the other variables
BuildFrame == UNCHANGED <<file, orig, hist, toc, tocOrig, tocRuns, tree0, opts>>

Goto(step) == pc' = [at |-> step, i |-> 0] /\ BuildFrame

\* a subprocess.run(..., check=True) that exits non-zero raises out of the try
\* block of build_all
Raise_Swallowed(step) ==
    /\ calls' = Append(calls, <<step, "failed">>)
    /\ outcome' = outcome
    /\ Goto("finally")
    /\ UNCHANGED <<tree, env>>

Raise(step) ==
    /\ calls' = Append(calls, <<step, "failed">>)
    /\ outcome' = "raising"
    /\ Goto("finally")
    /\ UNCHANGED <<tree, env>>

Ran(step) == calls' = Append(calls, <<step, "ok">>)

\* write_text only when the text changed
WrittenIfChanged(new, old) == IF new # old THEN new ELSE old
\* convert_markdown_tree: write_text only when ShouldWrite
ImgWritten(r, old) == IF ShouldWrite(r.text, old, r.converted) THEN r.text ELSE old

\* the metadata file build_all works with
MetaInUse == IF opts.temp_metadata THEN DEFAULT_METADATA ELSE opts.meta

\* lines 59-65: paths, the metadata file (a temporary one when the project
\* has none), and inside the try block the language; meta.get raises an
\* AttributeError when the YAML is not a mapping
get_metadata ==
    /\ pc.at = "start"
    /\ \/ /\ MetaInUse.parse # "scalar"
          /\ env' = [temp_file |-> IF opts.temp_metadata THEN "exists" ELSE "none",
                     metadata_file |-> IF opts.temp_metadata THEN "temp" ELSE "config",
                     lang |-> ResolveLang(opts.lang_cli, get_metadata_lang(MetaInUse))]
          /\ Goto("toc")
          /\ calls' = IF opts.temp_metadata
                      THEN Append(calls, <<"create_temp_metadata", "ok">>) ELSE calls
          /\ UNCHANGED <<tree, outcome>>
       \/ /\ MetaInUse.parse = "scalar"
          /\ Truthy(opts.lang_cli)
          /\ env' = [temp_file |-> "none", metadata_file |-> "config", lang |-> opts.lang_cli]
          /\ Goto("toc")
          /\ UNCHANGED <<tree, calls, outcome>>
       \/ /\ MetaInUse.parse = "scalar"
          /\ ~Truthy(opts.lang_cli)
          /\ env' = [temp_file |-> "none", metadata_file |-> "config", lang |-> "unset"]
          /\ calls' = Append(calls, <<"get_metadata_lang", "failed">>)
          /\ outcome' = "raising"
          /\ Goto("finally")
          /\ UNCHANGED tree

\* normalize_toc: skipped when there is no TOC file, else the normalizer
\* script runs on it
normalize_toc ==
    /\ pc.at = "toc"
    /\ \/ /\ ~tree.has_toc
          /\ Goto("pre_abs")
          /\ UNCHANGED <<tree, calls, outcome, env>>
       \/ /\ tree.has_toc
          /\ tree' = [tree EXCEPT !.toc = WrittenIfChanged(strip_to_anchors(tree.toc), tree.toc)]
          /\ Ran("normalize_toc_links")
          /\ Goto("pre_abs")
          /\ UNCHANGED <<outcome, env>>
       \/ /\ tree.has_toc
          /\ Raise("normalize_toc_links")

SkipImages_OnlySkipFlag == opts.skip_images

SkipImages == opts.skip_images \/ opts.keep_relative

\* the rglob("*.md") loops of the scripts: the chapter, and the TOC file when
\* there is one (front-matter is as deep under the project as chapters)
\* every .md file under manuscript/ through convert_file_to_absolute
AllToAbsolute(t) ==
    [t EXCEPT !.ch = WrittenIfChanged(ConvertImagesInText(t.ch).text, t.ch),
              !.toc = IF t.has_toc THEN WrittenIfChanged(ConvertImagesInText(t.toc).text, t.toc)
                      ELSE t.toc]
\* every .md file under manuscript/ through process_md_file
AllToRelative(t) ==
    [t EXCEPT !.ch = WrittenIfChanged(ConvertPathsInText(t.ch), t.ch),
              !.toc = IF t.has_toc THEN WrittenIfChanged(ConvertPathsInText(t.toc), t.toc)
                      ELSE t.toc]
\* every .md file under manuscript/ through convert_markdown_tree
AllImgTags(t, to_absolute) ==
    [t EXCEPT !.ch = ImgWritten(convert_src_for_file(t.ch, to_absolute), t.ch),
              !.toc = IF t.has_toc
                      THEN ImgWritten(convert_src_for_file(t.toc, to_absolute), t.toc)
                      ELSE t.toc]

\* one run_script of pre_image_steps or post_image_steps
ScriptStep(at, step, new_tree, next) ==
    /\ pc.at = at
    /\ \/ /\ tree' = new_tree
          /\ Ran(step)
          /\ Goto(next)
          /\ UNCHANGED <<outcome, env>>
       \/ Raise(step)

\* pre_image_steps: nothing when a skip flag is set, else the two scripts
pre_skip ==
    /\ pc.at = "pre_abs"
    /\ SkipImages
    /\ Goto("prepare")
    /\ UNCHANGED <<tree, calls, outcome, env>>

pre_abs ==
    /\ ~SkipImages
    /\ ScriptStep("pre_abs", "convert_to_absolute", AllToAbsolute(tree), "pre_img")

pre_img ==
    ScriptStep("pre_img", "convert_img_tags --to-absolute", AllImgTags(tree, TRUE), "prepare")

\* prepare_output_folder, which raises when the filesystem refuses, then
\* derive_output_basename
prepare_output ==
    /\ pc.at = "prepare"
    /\ \/ /\ Ran("prepare_output_folder")
          /\ pc' = [at |-> "format", i |-> 1]
          /\ BuildFrame
          /\ UNCHANGED <<tree, outcome, env>>
       \/ Raise("prepare_output_folder")

\* selected = formats or list(FORMATS.keys())
Selected == IF opts.formats = <<>> THEN AllFormats ELSE opts.formats

\* "for fmt in selected": is there a format left at index i
FormatsLeft_FirstOnly(i, selected) == i <= 1

FormatsLeft(i, selected) == i <= Len(selected)

\* the pandoc command build_one runs for fmt: format, --output,
\* --metadata-file, the lang argument, and the lang=... put on the command
\* line (for epub only)
PandocCall(fmt) ==
    <<"pandoc", "ok", fmt, OutPath(resolve_ext(fmt, opts.custom_md_ext)), env.metadata_file,
      env.lang, IF fmt = "epub" /\ Truthy(env.lang) THEN env.lang ELSE None>>

\* "if not md_files" of build_one: collect_md_files finds the chapter when
\* the section order names the chapters directory
NoMdFiles == opts.section_order = <<>>

\* the loop over the selected formats: an unknown one is skipped, build_one
\* returns early when there are no Markdown files and runs pandoc otherwise
build_format ==
    /\ pc.at = "format"
    /\ FormatsLeft(pc.i, Selected)
    /\ \/ /\ Selected[pc.i] \notin FORMATS
          /\ pc' = [pc EXCEPT !.i = pc.i + 1]
          /\ BuildFrame
          /\ UNCHANGED <<tree, calls, outcome, env>>
       \/ /\ Selected[pc.i] \in FORMATS
          /\ NoMdFiles
          /\ pc' = [pc EXCEPT !.i = pc.i + 1]
          /\ BuildFrame
          /\ UNCHANGED <<tree, calls, outcome, env>>
       \/ /\ Selected[pc.i] \in FORMATS
          /\ ~NoMdFiles
          /\ calls' = Append(calls, PandocCall(Selected[pc.i]))
          /\ pc' = [pc EXCEPT !.i = pc.i + 1]
          /\ BuildFrame
          /\ UNCHANGED <<tree, outcome, env>>
       \/ /\ Selected[pc.i] \in FORMATS
          /\ ~NoMdFiles
          /\ Raise("pandoc")

formats_done ==
    /\ pc.at = "format"
    /\ ~FormatsLeft(pc.i, Selected)
    /\ Goto("post_rel")
    /\ UNCHANGED <<tree, calls, outcome, env>>

\* post_image_steps
post_skip ==
    /\ pc.at = "post_rel"
    /\ SkipImages
    /\ Goto("validate")
    /\ UNCHANGED <<tree, calls, outcome, env>>

post_rel ==
    /\ ~SkipImages
    /\ ScriptStep("post_rel", "convert_to_relative", AllToRelative(tree), "post_img")

post_img ==
    ScriptStep("post_img", "convert_img_tags --to-relative", AllImgTags(tree, FALSE), "validate")

\* the loop of schedule_validations from index n on: one validator thread
\* per format, started with output_dir / f"{output_basename}.{ext}" where
\* ext = resolve_ext(fmt, None); FORMATS[fmt] is a KeyError for a format
\* that FORMATS does not know
RECURSIVE Validations(_, _)
Validations(selected, n) ==
    IF n > Len(selected) THEN << <<"schedule_validations", "ok">> >>
    ELSE IF selected[n] \notin FORMATS THEN << <<"schedule_validations", "KeyError">> >>
    ELSE << <<"validator", "ok", selected[n], OutPath(resolve_ext(selected[n], None))>> >>
         \o Validations(selected, n + 1)

schedule_validations ==
    /\ pc.at = "validate"
    /\ Goto("finally")
    /\ calls' = calls \o Validations(Selected, 1)
    /\ outcome' = IF \A n \in 1..Len(Selected) : Selected[n] \in FORMATS
                  THEN outcome ELSE "raising"
    /\ UNCHANGED <<tree, env>>

\* "if is_temp_metadata: paths.metadata_file.unlink(missing_ok=True)"
ShouldUnlink_OnSuccess(is_temp_metadata, out) == is_temp_metadata /\ out # "raising"

ShouldUnlink(is_temp_metadata, out) == is_temp_metadata

\* the finally block: the temporary metadata file is deleted, then build_all
\* returns or the exception goes on to the caller; unlink of the file the
\* process created itself is taken to succeed (an OSError from it would be
\* printed and swallowed, the file staying behind)
cleanup ==
    /\ pc.at = "finally"
    /\ Goto("done")
    /\ calls' = IF ShouldUnlink(env.metadata_file = "temp", outcome)
                THEN Append(calls, <<"unlink_temp_metadata", "ok">>) ELSE calls
    /\ env' = IF ShouldUnlink(env.metadata_file = "temp", outcome)
              THEN [env EXCEPT !.temp_file = "deleted"] ELSE env
    /\ outcome' = IF outcome = "raising" THEN "raised" ELSE "returned"
    /\ UNCHANGED tree

BuildNext ==
    \/ get_metadata
    \/ normalize_toc
    \/ pre_skip
    \/ pre_abs
    \/ pre_img
    \/ prepare_output
    \/ build_format
    \/ formats_done
    \/ post_skip
    \/ post_rel
    \/ post_img
    \/ schedule_validations
    \/ cleanup

BuildSpec == BuildInit /\ [][BuildNext]_vars

\* C1: after a build_all run that returned with neither skip flag set (every
\* external step having succeeded), every file under manuscript/ has the
\* content it had before the run
C1_ManuscriptUntouched ==
    (outcome = "returned" /\ ~opts.skip_images /\ ~opts.keep_relative) => tree = tree0

\* the calls made so far: pandoc runs, those that succeeded, validator
\* threads, and the positions of the selected formats that build_one runs
\* pandoc for (FORMATS knows them and there are Markdown files)
Pandocs == {i \in 1..Len(calls) : calls[i][1] = "pandoc"}
PandocOk == {i \in Pandocs : calls[i][2] = "ok"}
Validators == {i \in 1..Len(calls) : calls[i][1] = "validator"}
Requested == {n \in 1..Len(Selected) : Selected[n] \in FORMATS /\ ~NoMdFiles}
PreScripts == {"convert_to_absolute", "convert_img_tags --to-absolute"}
PostScripts == {"convert_to_relative", "convert_img_tags --to-relative"}
Called(call) == \E i \in 1..Len(calls) : calls[i] = call
NoSkipFlag == ~opts.skip_images /\ ~opts.keep_relative

\* C14: without a skip flag, convert_to_absolute and then convert_img_tags
\* --to-absolute have completed before any pandoc run, and no post-rewrite
\* script runs before pandoc has finished for every requested format;
\* convert_to_relative comes before convert_img_tags --to-relative
C14_RewritesAroundBuilds ==
    NoSkipFlag =>
        /\ \A i \in Pandocs :
              \E j \in 1..(i - 1), k \in 1..(i - 1) :
                  /\ j < k
                  /\ calls[j] = <<"convert_to_absolute", "ok">>
                  /\ calls[k] = <<"convert_img_tags --to-absolute", "ok">>
        /\ \A i \in 1..Len(calls) :
              calls[i][1] \in PostScripts
                  => /\ \A n \in Requested :
                            \E q \in PandocOk : q < i /\ calls[q][3] = Selected[n]
                     /\ \A q \in Pandocs : q < i
        /\ \A i \in 1..Len(calls) :
              calls[i][1] = "convert_img_tags --to-relative"
                  => \E j \in 1..(i - 1) : calls[j] = <<"convert_to_relative", "ok">>

\* build_all returned after building pdf and epub between the rewrites
C14_Witness ==
    /\ NoSkipFlag
    /\ outcome = "returned"
    /\ opts.formats = <<"pdf", "epub">>
    /\ Cardinality(PandocOk) = 2
    /\ Called(<<"convert_img_tags --to-relative", "ok">>)

\* C15: with skip_images or keep_relative set no rewrite script is ever
\* invoked, and once the format loop is over pandoc has built every
\* requested format
C15_SkipFlagsOnlySkipRewrites ==
    (opts.skip_images \/ opts.keep_relative) =>
        /\ \A i \in 1..Len(calls) : calls[i][1] \notin PreScripts \cup PostScripts
        /\ (pc.at = "validate" \/ outcome = "returned")
              => \A n \in Requested : \E q \in PandocOk : calls[q][3] = Selected[n]

\* build_all returned with only keep_relative set, having built two formats
C15_Witness ==
    /\ opts.keep_relative /\ ~opts.skip_images
    /\ outcome = "returned"
    /\ Cardinality(PandocOk) = 2

C17_PandocFailureRaises ==
    \A i \in Pandocs :
        calls[i][2] = "failed"
            => /\ outcome \in {"raising", "raised"}
               /\ \A j \in (i + 1)..Len(calls) : calls[j][1] = "unlink_temp_metadata"

\* build_all ended by raising after the second format's pandoc run failed
C17_Witness ==
    /\ outcome = "raised"
    /\ opts.formats = <<"pdf", "epub">>
    /\ calls[Len(calls)] = <<"pandoc", "failed">>
    /\ Cardinality(PandocOk) = 1

\* the language the metadata file in use declares: language, else lang
DeclaredLanguage ==
    IF MetaInUse.parse # "ok" THEN None
    ELSE IF Truthy(MetaInUse.language) THEN MetaInUse.language
    ELSE IF Truthy(MetaInUse.lang) THEN MetaInUse.lang
    ELSE None

\* C18: the language of every pandoc run (the lang argument, and the lang=
\* on the epub command line) is the caller's when the caller gave one, else
\* the one the metadata file declares, else "en"
C18_LanguagePrecedence ==
    \A q \in PandocOk :
        /\ Truthy(opts.lang_cli) => calls[q][6] = opts.lang_cli
        /\ (~Truthy(opts.lang_cli) /\ DeclaredLanguage # None) => calls[q][6] = DeclaredLanguage
        /\ (~Truthy(opts.lang_cli) /\ DeclaredLanguage = None) => calls[q][6] = "en"
        /\ calls[q][3] = "epub" => calls[q][7] = calls[q][6]

\* an epub was built with the caller's "es" while the metadata file declares
\* another language
C18_Witness ==
    /\ opts.lang_cli = "es"
    /\ ~opts.temp_metadata
    /\ opts.meta.language = "fr"
    /\ \E q \in PandocOk : calls[q][3] = "epub"

\* C19: every validator thread of a format pandoc built is started with the
\* path pandoc was given as --output for that format
C19_ValidatorGetsOutputPath ==
    \A v \in Validators :
        \A q \in PandocOk : calls[q][3] = calls[v][3] => calls[q][4] = calls[v][4]

\* C20: when build_all has returned or raised after convert_to_absolute ran,
\* convert_to_relative has run as well and no chapter is left with absolute
\* paths
C20_PostRewriteAlwaysRuns ==
    (pc.at = "done" /\ Called(<<"convert_to_absolute", "ok">>))
        => /\ Called(<<"convert_to_relative", "ok">>)
           /\ ~Contains(tree.ch, PathStr(ASSETS_DIR))

\* the best-effort passes over the manuscript, and the steps of build_all
\* that come after them
BestEffortSteps == {"normalize_toc_links"} \cup PreScripts \cup PostScripts
LaterSteps ==
    {"prepare_output_folder", "pandoc", "validator", "schedule_validations"}
        \cup PreScripts \cup PostScripts

\* C21: when the TOC normalizer or a path rewrite script has exited non-zero,
\* build_all still goes on to a later step and ends by returning
C21_RewriteFailureTolerated ==
    \A i \in 1..Len(calls) :
        (pc.at = "done" /\ calls[i][1] \in BestEffortSteps /\ calls[i][2] = "failed")
            => /\ \E j \in (i + 1)..Len(calls) : calls[j][1] \in LaterSteps
               /\ outcome = "returned"

\* no external step (script, filesystem, pandoc, YAML access) has failed
NoStepFailed == \A i \in 1..Len(calls) : calls[i][2] # "failed"
UnknownRequested == \E n \in 1..Len(Selected) : Selected[n] \notin FORMATS

\* C22: when the format list holds a name FORMATS does not know and no
\* external step failed, build_all ends by returning, after a pandoc run and
\* a validator thread for every other requested format
C22_UnknownFormatSkipped ==
    (pc.at = "done" /\ UnknownRequested /\ NoStepFailed)
        => /\ outcome = "returned"
           /\ \A n \in Requested :
                 /\ \E q \in PandocOk : calls[q][3] = Selected[n]
                 /\ \E v \in Validators : calls[v][3] = Selected[n]

\* the validator threads started for fmt, and whether pandoc produced fmt
ValidatorsOf(fmt) == {v \in Validators : calls[v][3] = fmt}
ProducedFormat(fmt) == \E q \in PandocOk : calls[q][3] = fmt

\* C30: when build_all has returned, one validator thread was started for
\* each format pandoc produced in this run and none for any other format
C30_OneValidatorPerProduced ==
    outcome = "returned"
        => \A fmt \in FORMATS :
              Cardinality(ValidatorsOf(fmt)) = IF ProducedFormat(fmt) THEN 1 ELSE 0

(***************************************************************************)
(* Further properties of convert_to_absolute: restoring the code regions   *)
(***************************************************************************)

\* the placeholders _protect_segments can have handed out for a text
Placeholders(text) == {Token(prefix, idx) : prefix \in {"FENCE", "INLINE"}, idx \in 0..Len(text)}
HasPlaceholder(text, of) == \E i \in 1..Len(text) : text[i] \in Placeholders(of)

\* C23: for a text that holds no placeholder itself, the text left by
\* convert_to_absolute holds none either, and is the input text when the
\* input has no reference to convert outside code
C23_CodeRestoredVerbatim ==
    (Len(hist) >= 1 /\ hist[1].op = ToAbs /\ ~HasPlaceholder(orig, orig))
        => /\ ~HasPlaceholder(AfterFirst, orig)
           /\ OutsideCode(orig) = 0 => AfterFirst = orig

(***************************************************************************)
(* The Markdown file under the two path rewriters, on image references     *)
(* with angle brackets, with parentheses in the target, and in a ~~~ fence *)
(***************************************************************************)

\* the tilde character ("^" stands for it, "~" being taken by the backtick)
Tilde == "^"

\* ![x](../../a/(k)): a bare relative target with balanced parentheses
ParenTag ==
    <<"!", "[", "x", "]", "(", ".", ".", "/", ".", ".", "/", "a", "/", "(", "k", ")", ")">>
\* ![x](../../a/(k) "t"): the same with a quoted title
ParenTitleTag ==
    <<"!", "[", "x", "]", "(", ".", ".", "/", ".", ".", "/", "a", "/", "(", "k", ")",
      " ", "\"", "t", "\"", ")">>
\* what the two become: ![x](/p/a/(k)) and ![x](/p/a/(k) "t")
ParenAbs == <<"!", "[", "x", "]", "(", "/", "p", "/", "a", "/", "(", "k", ")", ")">>
ParenTitleAbs ==
    <<"!", "[", "x", "]", "(", "/", "p", "/", "a", "/", "(", "k", ")", " ", "\"", "t", "\"", ")">>
\* ![x](</p/a/i>): the absolute target in angle brackets
AngleAbs == <<"!", "[", "x", "]", "(", "<", "/", "p", "/", "a", "/", "i", ">", ")">>
\* a block fenced by ~~~ that quotes the relative reference
TildeFence == <<Tilde, Tilde, Tilde, "\n">> \o RelTag \o <<"\n", Tilde, Tilde, Tilde, "\n">>

TagFrags == {ParenTag, ParenTitleTag, AngleTag, AngleAbs, TildeFence, MissingTag}

TagInit ==
    /\ file \in TextsOf(TagFrags, MaxFrags)
    /\ orig = file
    /\ hist = <<>>
    /\ Idle

TagSpec == TagInit /\ [][Next]_vars

\* C24: convert_to_absolute leaves every ~~~-fenced block that quotes a
\* reference to an existing file as it is written
C24_TildeFenceSkipped ==
    (Len(hist) >= 1 /\ hist[1].op = ToAbs)
        => Occurrences(AfterFirst, TildeFence, 1) = Occurrences(orig, TildeFence, 1)

\* C25: a reference whose target is in angle brackets has its target in
\* angle brackets after either rewrite: the relative one becomes
\* ![x](</p/a/i>) under convert_to_absolute, the absolute one becomes
\* ![x](<../../a/i>) under convert_to_relative
C25_AngleBracketsKept ==
    /\ (Len(hist) >= 1 /\ hist[1].op = ToAbs)
          => Occurrences(AfterFirst, AngleAbs, 1)
                 = Occurrences(orig, AngleAbs, 1) + Occurrences(orig, AngleTag, 1)
    /\ (Len(hist) >= 1 /\ hist[1].op = ToRel)
          => Occurrences(AfterFirst, AngleTag, 1)
                 = Occurrences(orig, AngleTag, 1) + Occurrences(orig, AngleAbs, 1)

\* C26: convert_to_absolute replaces every reference whose bare target
\* ../../a/(k) has balanced parentheses by the tag with the absolute path
\* /p/a/(k), a quoted title staying behind the path, and counts each
C26_BalancedParensTarget ==
    (Len(hist) >= 1 /\ hist[1].op = ToAbs)
        => /\ Occurrences(AfterFirst, ParenAbs, 1) = Occurrences(orig, ParenTag, 1)
           /\ Occurrences(AfterFirst, ParenTitleAbs, 1) = Occurrences(orig, ParenTitleTag, 1)
           /\ ~Contains(AfterFirst, ParenTag) /\ ~Contains(AfterFirst, ParenTitleTag)
           /\ hist[1].converted
                  >= Occurrences(orig, ParenTag, 1) + Occurrences(orig, ParenTitleTag, 1)

\* a file with both forms of the reference has been through
\* convert_to_absolute and holds both absolute tags
C26_Witness ==
    /\ Len(hist) = 1
    /\ hist[1].op = ToAbs
    /\ Contains(orig, ParenTag) /\ Contains(orig, ParenTitleTag)
    /\ Contains(file, ParenAbs) /\ Contains(file, ParenTitleAbs)

(***************************************************************************)
(* Further properties of convert_img_tags                                  *)
(***************************************************************************)

\* the tags whose src neither direction converts: a src that is not on
\* disk, an absolute src outside assets, no src at all
NeverConverted == {ImgMissing, ImgOutside, ImgNoSrc}

\* C27: a tag whose own src is not converted is in the file after a call of
\* the <img> rewriter exactly as it was written before the call
C27_OnlySrcRewritten ==
    \A k \in 1..Len(hist) :
        \A tag \in NeverConverted :
            Occurrences(AfterCall(k), tag, 1) = Occurrences(hist[k].before, tag, 1)

(***************************************************************************)
(* Further properties of collect_md_files                                  *)
(***************************************************************************)

\* the existing .md files the manifest names, directly or by their directory
NamedFiles ==
    (IF Contains(opts.section_order, <<SecDir>>)
     THEN {<<SecDir, x>> : x \in {y \in tree.dir : Suffix(y) = <<".", "m", "d">>}}
     ELSE {})
        \cup (IF tree.has_file /\ Contains(opts.section_order, <<SecFile>>)
              THEN {<<SecFile>>} ELSE {})

\* C28: every call of collect_md_files returns every existing .md file the
\* manifest names, and returns no file twice
C28_NoDropNoDuplicate ==
    \A k \in 1..Len(calls) :
        /\ \A f \in NamedFiles : \E i \in 1..Len(calls[k]) : calls[k][i] = f
        /\ \A i, j \in 1..Len(calls[k]) : calls[k][i] = calls[k][j] => i = j

(***************************************************************************)
(* Further properties of prepare_output_folder                             *)
(***************************************************************************)

\* C29: from the return of a prepare_output_folder call on, through the
\* builds that follow it, the backup directory is exactly the output
\* directory that call found, or is absent when that call found no entry in
\* the output directory: nothing of an older backup is left
C29_OneBackupGeneration ==
    (calls # <<>> /\ calls[Len(calls)] = "returned")
        => tree.bak = IF hist[1].out.kind = "dir" /\ hist[1].out.items # {}
                      THEN hist[1].out ELSE Absent

\* a second call has returned and a build has written into the new output
\* directory; the second call found the first call's backup and other
\* entries in the output directory
C29_Witness ==
    /\ Len(calls) = 2
    /\ calls = <<"returned", "returned">>
    /\ pc.at = "built"
    /\ hist[1].bak = [kind |-> "dir", items |-> {<<"b.pdf">>}]
    /\ hist[1].out = [kind |-> "dir", items |-> {<<"b.epub">>}]
    /\ tree.bak = hist[1].out

====
